---- MODULE Spec2Model ----
(***************************************************************************)
(* Verification model of the revibe LLM backend layer: the Qwen and        *)
(* Antigravity adapters' auth retry, the Qwen thinking-block parser, the   *)
(* Antigravity stream's tool-call index tracking, the tool-call argument   *)
(* normalisation of the four adapters, OAuth refresh coalescing, the       *)
(* adapters' HTTP client lifecycle, the abandonment of a stream, the loop  *)
(* over the lines of a streamed response, the translations between the     *)
(* canonical model and the providers' forms, the model listing of the      *)
(* Ollama adapter, the project identifier of an Antigravity request, the   *)
(* cumulative content of a Qwen stream, and the exceptions of a streaming  *)
(* call with its auth retry.                                               *)
(***************************************************************************)
EXTENDS Integers, Sequences, FiniteSets, TLC

(***************************************************************************)
(* Bounds of the model.                                                    *)
(***************************************************************************)
\* upstream requests one adapter call may issue in the model (the code issues at most 2)
MaxRequests == 3
\* data frames of one streamed 200 response
MaxFrames == 2

(***************************************************************************)
(* Program constants.                                                      *)
(***************************************************************************)
HTTP_UNAUTHORIZED == 401
HTTP_FORBIDDEN == 403
RETRYABLE_STATUS_CODES == {HTTP_UNAUTHORIZED, HTTP_FORBIDDEN}

(***************************************************************************)
(* PART 1 - auth retry of QwenBackend and AntigravityBackend               *)
(* (complete / complete_streaming -> _complete_with_retry /                *)
(* _complete_streaming_with_retry).                                        *)
(***************************************************************************)
VARIABLES
    backend,      \* "qwen" | "antigravity": the adapter the call runs on
    api_key,      \* QwenBackend._api_key is set (then _oauth_manager is None)
    streaming,    \* TRUE: complete_streaming, FALSE: complete
    pc,           \* position of the call
    retry_count,  \* the _retry_count argument of the running attempt
    log,          \* events of the call, in order: manager calls, upstream requests, chunks
    outcome,      \* "none" while running, "ok", or the error raised to the caller
    result,       \* complete: number of the request whose completion was returned (0: none)
    frames_left,  \* streaming: data frames of the open response not yet read
    mgr           \* the OAuth manager: [token, expired, failed]

retryVars == <<backend, api_key, streaming, pc, retry_count, log, outcome, result,
               frames_left, mgr>>

\* PART 2 - ThinkingBlockParser fed a text in chunks.
VARIABLES
    tb_text,       \* the whole text the stream will deliver (a sequence of characters)
    tb_fed,        \* number of its characters already passed to parse
    tb_parser,     \* the parser object: [buffer, in_thinking_block]
    tb_content,    \* concatenation of the regular_content parts returned so far
    tb_reasoning   \* concatenation of the reasoning_content parts returned so far

parserVars == <<tb_text, tb_fed, tb_parser, tb_content, tb_reasoning>>

\* PART 3 - one Antigravity SSE stream (_complete_streaming_with_retry).
VARIABLES
    tool_call_index_tracker,  \* function name -> index assigned in this stream
    next_tool_call_index,     \* the next free index
    ag_read,                  \* number of data frames read so far
    ag_frame,                 \* the parts of the frame read last
    ag_chunk,                 \* the chunk yielded for it
    ag_seen,                  \* names of all functionCall parts received, in stream order
    ag_emitted                \* the tool calls of all chunks yielded, in order

streamVars == <<tool_call_index_tracker, next_tool_call_index, ag_read, ag_frame,
                ag_chunk, ag_seen, ag_emitted>>

\* PART 4 - one upstream tool call parsed by an adapter.
VARIABLES
    ta_adapter,    \* "antigravity" | "qwen" | "huggingface" | "openai"
    ta_call,       \* the upstream tool call: the shapes under its "args" and "arguments" keys
    ta_pc,         \* "input" | "parsed"
    ta_out         \* the parse's result: [raised, tool_call]

argsVars == <<ta_adapter, ta_call, ta_pc, ta_out>>

\* PART 5 - adapter requests calling ensure_authenticated on one OAuth manager.
VARIABLES
    oa_backend,           \* the adapter the requests run on: "qwen" | "antigravity"
    oa_pc,                \* caller -> position of its request
    oa_got,               \* caller -> the access token its last call returned (-1: none yet)
    oa_lock,              \* the manager's mutex: the caller holding it, 0 when free
    oa_token,             \* the manager's access token, by version (0: the stored one)
    oa_expired,           \* the stored token is expired
    oa_attempts,          \* refresh requests sent by the refresh in flight
    oa_refresh_requests,  \* refresh HTTP requests issued so far
    oa_failed             \* some refresh request failed

oauthVars == <<oa_backend, oa_pc, oa_got, oa_lock, oa_token, oa_expired, oa_attempts,
               oa_refresh_requests, oa_failed>>

\* PART 6 - the HTTP client of one adapter object.
VARIABLES
    lc_adapter,      \* "qwen" | "antigravity" | "huggingface" | "openai"
    lc_client,       \* self._client: the id of a client, 0 for None
    lc_owns_client,  \* self._owns_client
    lc_created,      \* clients created so far (their ids are 1..lc_created)
    lc_open,         \* ids of the clients that are open
    lc_scope,        \* "outside" | "inside" the `async with` block
    lc_entered,      \* the client __aenter__ acquired for the current scope
    lc_exited,       \* the clients acquired on entry of the scopes already exited
    lc_exit_kind     \* how the body of the last scope ended

clientVars == <<lc_adapter, lc_client, lc_owns_client, lc_created, lc_open, lc_scope,
                lc_entered, lc_exited, lc_exit_kind>>

\* PART 7 - a caller abandoning a streaming completion.
VARIABLES
    ab_adapter,     \* "qwen" | "antigravity" | "huggingface"
    ab_caller,      \* "iterating" | "abandoned"
    ab_wrapper,     \* complete_streaming of Qwen/Antigravity: "suspended" | "closed" ("none": HuggingFace)
    ab_gen,         \* the generator holding the response: "created" | "reading" | "yielded" | "finished" | "closed"
    ab_response,    \* the HTTP response (its connection): "none" | "open" | "closed"
    ab_left,        \* data frames the server has still to send
    ab_emitted,     \* chunks yielded so far
    ab_at_abandon   \* chunks yielded when the caller abandoned the stream (-1: it has not)

abandonVars == <<ab_adapter, ab_caller, ab_wrapper, ab_gen, ab_response, ab_left,
                 ab_emitted, ab_at_abandon>>

\* PART 8 - the lines of one streamed response, read by an adapter's loop.
VARIABLES
    ss_adapter,   \* "qwen" | "antigravity" | "huggingface"
    ss_lines,     \* the lines read so far, in server order
    ss_chunks,    \* the chunks yielded so far: [line, tool_calls]
    ss_state,     \* "streaming" | "raised"
    ss_error      \* the exception that ended the stream ("none": no exception)

sseVars == <<ss_adapter, ss_lines, ss_chunks, ss_state, ss_error>>

\* PART 9 - one translation between the canonical model and a provider's form.
VARIABLES
    rq_op,        \* "lookup" | "tool_choice" | "messages" | "round_trip" | "count_tokens" | "tools" | ...
    rq_adapter,   \* the adapter (or backend tag) the operation is applied for
    rq_in,        \* the operation's input
    rq_pc,        \* "input" | "done"
    rq_out        \* the operation's output

requestVars == <<rq_op, rq_adapter, rq_in, rq_pc, rq_out>>

\* PART 10 - one call of OllamaBackend.list_models.
VARIABLES
    ol_base,      \* the provider's api_base, as a sequence of tokens
    ol_pc,        \* "start" | "fallback" | "returned" | "raised"
    ol_calls,     \* the URLs requested so far, in order
    ol_tags,      \* the outcome of the request to /api/tags
    ol_result     \* the list returned, or the exception raised to the caller

ollamaVars == <<ol_base, ol_pc, ol_calls, ol_tags, ol_result>>

\* PART 11 - the project identifier in the requests of one Antigravity adapter.
VARIABLES
    pj_cred,      \* project_id of the stored credentials (None: not cached)
    pj_memo,      \* self._project_id of the adapter (None: not set)
    pj_sent       \* the requests sent: [token, cred, project]

projectVars == <<pj_cred, pj_memo, pj_sent>>

\* PART 12 - the content of the frames of one Qwen stream.
VARIABLES
    qd_full,      \* full_content of _complete_streaming_with_retry
    qd_read,      \* number of frames read
    qd_content,   \* delta["content"] of the frame read last
    qd_handed,    \* the text passed to thinking_parser.parse for it (empty: no call)
    qd_acc        \* all the text passed to the parser so far

deltaVars == <<qd_full, qd_read, qd_content, qd_handed, qd_acc>>

\* PART 13 - the exceptions of one streaming call and its auth retry.
VARIABLES
    rs_adapter,     \* "qwen" | "antigravity"
    rs_oauth,       \* self._oauth_manager is set
    rs_retry_count, \* _retry_count of the running _complete_streaming_with_retry
    rs_pc,          \* "request" | "streaming" | "done"
    rs_log,         \* the upstream requests and the chunks yielded, in order
    rs_outcome      \* "none" | "ok" | the error raised to the caller

streamRetryVars == <<rs_adapter, rs_oauth, rs_retry_count, rs_pc, rs_log, rs_outcome>>

\* An action of one part leaves the variables of the other parts alone.
RetryFrame ==
    UNCHANGED <<parserVars, streamVars, argsVars, oauthVars, clientVars, abandonVars,
                sseVars, requestVars, ollamaVars, projectVars, deltaVars,
                streamRetryVars>>
ParserFrame ==
    UNCHANGED <<retryVars, streamVars, argsVars, oauthVars, clientVars, abandonVars,
                sseVars, requestVars, ollamaVars, projectVars, deltaVars,
                streamRetryVars>>
StreamFrameVars ==
    UNCHANGED <<retryVars, parserVars, argsVars, oauthVars, clientVars, abandonVars,
                sseVars, requestVars, ollamaVars, projectVars, deltaVars,
                streamRetryVars>>
ArgsFrame ==
    UNCHANGED <<retryVars, parserVars, streamVars, oauthVars, clientVars, abandonVars,
                sseVars, requestVars, ollamaVars, projectVars, deltaVars,
                streamRetryVars>>
OAuthFrame ==
    UNCHANGED <<retryVars, parserVars, streamVars, argsVars, clientVars, abandonVars,
                sseVars, requestVars, ollamaVars, projectVars, deltaVars,
                streamRetryVars>>
ClientFrame ==
    UNCHANGED <<retryVars, parserVars, streamVars, argsVars, oauthVars, abandonVars,
                sseVars, requestVars, ollamaVars, projectVars, deltaVars,
                streamRetryVars>>
AbandonFrame ==
    UNCHANGED <<retryVars, parserVars, streamVars, argsVars, oauthVars, clientVars,
                sseVars, requestVars, ollamaVars, projectVars, deltaVars,
                streamRetryVars>>
SseFrame ==
    UNCHANGED <<retryVars, parserVars, streamVars, argsVars, oauthVars, clientVars,
                abandonVars, requestVars, ollamaVars, projectVars, deltaVars,
                streamRetryVars>>
RequestFrame ==
    UNCHANGED <<retryVars, parserVars, streamVars, argsVars, oauthVars, clientVars,
                abandonVars, sseVars, ollamaVars, projectVars, deltaVars,
                streamRetryVars>>
OllamaFrame ==
    UNCHANGED <<retryVars, parserVars, streamVars, argsVars, oauthVars, clientVars,
                abandonVars, sseVars, requestVars, projectVars, deltaVars,
                streamRetryVars>>
ProjectFrame ==
    UNCHANGED <<retryVars, parserVars, streamVars, argsVars, oauthVars, clientVars,
                abandonVars, sseVars, requestVars, ollamaVars, deltaVars,
                streamRetryVars>>
DeltaFrame ==
    UNCHANGED <<retryVars, parserVars, streamVars, argsVars, oauthVars, clientVars,
                abandonVars, sseVars, requestVars, ollamaVars, projectVars,
                streamRetryVars>>
StreamRetryFrame ==
    UNCHANGED <<retryVars, parserVars, streamVars, argsVars, oauthVars, clientVars,
                abandonVars, sseVars, requestVars, ollamaVars, projectVars, deltaVars>>

vars ==
    <<retryVars, parserVars, streamVars, argsVars, oauthVars, clientVars, abandonVars,
      sseVars, requestVars, ollamaVars, projectVars, deltaVars, streamRetryVars>>

\* No text is being parsed (the other parts' specifications).
ParserIdle ==
    /\ tb_text = <<>>
    /\ tb_fed = 0
    /\ tb_parser = [buffer |-> <<>>, in_thinking_block |-> FALSE]
    /\ tb_content = <<>>
    /\ tb_reasoning = <<>>

\* HTTP statuses the upstream may answer; 0 stands for a transport failure
\* (httpx.RequestError: no response at all).
Statuses == {200, 400, 401, 403, 429, 500}
TransportFailure == [status |-> 0, body |-> "none", frames |-> 0]

\* What a 200 response carries: a valid completion (JSON for complete, an SSE
\* stream of `frames` data frames for complete_streaming), a body that is not
\* one (not JSON / not text/event-stream), or nothing.
Bodies == {"valid", "garbage", "empty"}

UpstreamResponses ==
    {[status |-> s, body |-> "error", frames |-> 0] : s \in Statuses \ {200}}
    \cup {[status |-> 200, body |-> b, frames |-> 0] : b \in Bodies \ {"valid"}}
    \cup {[status |-> 200, body |-> "valid", frames |-> f] : f \in 0..MaxFrames}
    \cup {TransportFailure}

AuthEvent(force) ==
    [ev |-> "ensure_authenticated", force |-> force, status |-> 0, body |-> "-",
     frames |-> 0, req |-> 0]
RequestEvent(resp, k) ==
    [ev |-> "request", force |-> FALSE, status |-> resp.status, body |-> resp.body,
     frames |-> resp.frames, req |-> k]
ChunkEvent(k) ==
    [ev |-> "chunk", force |-> FALSE, status |-> 0, body |-> "-", frames |-> 0, req |-> k]

IsRequest(e) == e.ev = "request"
Requests == SelectSeq(log, IsRequest)
NumRequests == Len(Requests)

\* QwenBackend.__init__: the OAuth manager exists only when no API key is set;
\* AntigravityBackend.__init__ always creates one.
oauth_manager == IF backend = "qwen" THEN ~api_key ELSE TRUE

\* BackendErrorBuilder.build_http_error: HTTP status -> error kind.
build_http_error(status) ==
    IF status \in {401, 403} THEN "AuthError"
    ELSE IF status = 429 THEN "RateLimitError"
    ELSE IF status >= 400 /\ status < 500 THEN "BadRequestError"
    ELSE "ServerError"

\* BackendErrorBuilder.build_request_error: request-side failure.
build_request_error == "TransportError"

\* Mutant: every attempt forces a refresh.
force_refresh_always == retry_count >= 0

\* force_refresh = _retry_count > 0
force_refresh == retry_count > 0

\* OAuth manager, ensure_authenticated(force_refresh): refresh when forced or
\* when the stored token is expired; a refresh either succeeds (new token) or
\* fails with AuthError.
NeedsRefresh(force) == force \/ mgr.expired
Refreshed == [token |-> mgr.token + 1, expired |-> FALSE, failed |-> FALSE]

\* One call of ensure_authenticated from the adapter; on success the call goes
\* on at `next`, on failure the AuthError propagates to the caller.
ensure_authenticated(force, next) ==
    /\ log' = Append(log, AuthEvent(force))
    /\ \/ /\ ~NeedsRefresh(force)
          /\ pc' = next
          /\ UNCHANGED <<mgr, outcome>>
       \/ /\ NeedsRefresh(force)
          /\ mgr' = Refreshed
          /\ pc' = next
          /\ UNCHANGED outcome
       \/ /\ NeedsRefresh(force)
          /\ mgr' = [mgr EXCEPT !.failed = TRUE]
          /\ pc' = "done"
          /\ outcome' = "AuthError"

\* QwenBackend._get_auth_headers
Qwen_get_auth_headers ==
    /\ backend = "qwen"
    /\ pc = "auth_headers"
    /\ IF api_key
       THEN pc' = "base_url" /\ UNCHANGED <<log, mgr, outcome>>
       ELSE ensure_authenticated(force_refresh, "base_url")
    /\ UNCHANGED <<backend, api_key, streaming, retry_count, result, frames_left>>
    /\ RetryFrame

\* QwenBackend._get_base_url: with an OAuth manager the base URL comes from a
\* second ensure_authenticated() call (force_refresh left at its default).
Qwen_get_base_url ==
    /\ backend = "qwen"
    /\ pc = "base_url"
    /\ IF oauth_manager
       THEN ensure_authenticated(FALSE, "send")
       ELSE pc' = "send" /\ UNCHANGED <<log, mgr, outcome>>
    /\ UNCHANGED <<backend, api_key, streaming, retry_count, result, frames_left>>
    /\ RetryFrame

\* AntigravityBackend._get_auth_headers
Antigravity_get_auth_headers ==
    /\ backend = "antigravity"
    /\ pc = "auth_headers"
    /\ ensure_authenticated(force_refresh, "send")
    /\ UNCHANGED <<backend, api_key, streaming, retry_count, result, frames_left>>
    /\ RetryFrame

\* Mutant: a 401 is never retried.
Qwen_retryable_never(status) == FALSE

\* Mutant: the retry does not look at _retry_count.
Qwen_retryable_unbounded(status) ==
    status = HTTP_UNAUTHORIZED /\ oauth_manager

\* Mutant: the retry does not look at the OAuth manager.
Qwen_retryable_with_key(status) ==
    status = HTTP_UNAUTHORIZED /\ retry_count = 0

\* The retry condition of QwenBackend's except httpx.HTTPStatusError handlers.
Qwen_retryable(status) ==
    status = HTTP_UNAUTHORIZED /\ oauth_manager /\ retry_count = 0

\* Mutant: only a 401 is retried.
Antigravity_retryable_401_only(status) ==
    status = HTTP_UNAUTHORIZED /\ retry_count = 0

\* The retry condition of AntigravityBackend's handlers.
Antigravity_retryable(status) ==
    status \in RETRYABLE_STATUS_CODES /\ retry_count = 0

Retryable(status) ==
    IF backend = "qwen" THEN Qwen_retryable(status) ELSE Antigravity_retryable(status)

\* except httpx.HTTPStatusError: retry once with a forced refresh, else raise.
HandleStatusError(status) ==
    IF Retryable(status)
    THEN /\ retry_count' = 1
         /\ pc' = "auth_headers"
         /\ UNCHANGED <<outcome, result, frames_left>>
    ELSE /\ pc' = "done"
         /\ outcome' = build_http_error(status)
         /\ UNCHANGED <<retry_count, result, frames_left>>

\* complete: the body of the try block after raise_for_status().
HandleCompleteBody(resp, k) ==
    IF resp.body = "valid"
    THEN /\ pc' = "done"
         /\ outcome' = "ok"
         /\ result' = k
         /\ UNCHANGED <<retry_count, frames_left>>
    ELSE /\ pc' = "done"
         /\ outcome' = "ValueError"
         /\ UNCHANGED <<retry_count, result, frames_left>>

\* complete_streaming: the content-type guard, then the frame loop is entered.
\* A non-SSE 200 with a body raises ValueError; with an empty body the
\* generator returns without a chunk.
HandleStreamHead(resp) ==
    IF resp.body = "valid"
    THEN /\ pc' = "streaming"
         /\ frames_left' = resp.frames
         /\ UNCHANGED <<retry_count, outcome, result>>
    ELSE IF resp.body = "empty"
    THEN /\ pc' = "done"
         /\ outcome' = "ok"
         /\ UNCHANGED <<retry_count, result, frames_left>>
    ELSE /\ pc' = "done"
         /\ outcome' = "ValueError"
         /\ UNCHANGED <<retry_count, result, frames_left>>

\* client.post / client.stream, raise_for_status and the except clauses of
\* _complete_with_retry and _complete_streaming_with_retry.
SendRequest ==
    /\ pc = "send"
    /\ NumRequests < MaxRequests
    /\ \E resp \in UpstreamResponses :
        LET k == NumRequests + 1 IN
        /\ log' = Append(log, RequestEvent(resp, k))
        /\ IF resp = TransportFailure
           THEN /\ pc' = "done"
                /\ outcome' = build_request_error
                /\ UNCHANGED <<retry_count, result, frames_left>>
           ELSE IF resp.status # 200
           THEN HandleStatusError(resp.status)
           ELSE IF streaming
           THEN HandleStreamHead(resp)
           ELSE HandleCompleteBody(resp, k)
    /\ UNCHANGED <<backend, api_key, streaming, mgr>>
    /\ RetryFrame

\* One data frame of the open stream is read and its chunk yielded.
StreamFrame ==
    /\ pc = "streaming"
    /\ frames_left > 0
    /\ frames_left' = frames_left - 1
    /\ log' = Append(log, ChunkEvent(NumRequests))
    /\ UNCHANGED <<backend, api_key, streaming, pc, retry_count, outcome, result, mgr>>
    /\ RetryFrame

\* The stream is exhausted: the generator returns.
StreamEnd ==
    /\ pc = "streaming"
    /\ frames_left = 0
    /\ pc' = "done"
    /\ outcome' = "ok"
    /\ UNCHANGED <<backend, api_key, streaming, retry_count, log, result, frames_left, mgr>>
    /\ RetryFrame

\* No adapter call is running (the other parts' specifications).
RetryIdle ==
    /\ backend = "qwen"
    /\ api_key = FALSE
    /\ streaming = FALSE
    /\ pc = "idle"
    /\ retry_count = 0
    /\ log = <<>>
    /\ outcome = "none"
    /\ result = 0
    /\ frames_left = 0
    /\ mgr = [token |-> 0, expired |-> FALSE, failed |-> FALSE]

RetryInit ==
    /\ backend \in {"qwen", "antigravity"}
    /\ api_key \in (IF backend = "qwen" THEN BOOLEAN ELSE {FALSE})
    /\ streaming \in BOOLEAN
    /\ pc = "auth_headers"
    /\ retry_count = 0
    /\ log = <<>>
    /\ outcome = "none"
    /\ result = 0
    /\ frames_left = 0
    /\ mgr \in {[token |-> 0, expired |-> e, failed |-> FALSE] : e \in BOOLEAN}

RetryNext ==
    \/ Qwen_get_auth_headers
    \/ Qwen_get_base_url
    \/ Antigravity_get_auth_headers
    \/ SendRequest
    \/ StreamFrame
    \/ StreamEnd


(***************************************************************************)
(* Claims about the auth retry (checked under SpecRetry).                  *)
(***************************************************************************)
IsChunk(e) == e.ev = "chunk"
Chunks == SelectSeq(log, IsChunk)
ChunksOf(k) == {i \in DOMAIN log : log[i].ev = "chunk" /\ log[i].req = k}
ForcedCalls == {i \in DOMAIN log : log[i].ev = "ensure_authenticated" /\ log[i].force}
RequestAt(k) == {i \in DOMAIN log : log[i].ev = "request" /\ log[i].req = k}

\* The call returned the completion of request k: complete returned its chunk,
\* complete_streaming yielded exactly its frames' chunks and nothing else.
ReturnedCompletionOf(k) ==
    /\ outcome = "ok"
    /\ IF streaming
       THEN /\ \A i \in DOMAIN Chunks : Chunks[i].req = k
            /\ Len(Chunks) = Requests[k].frames
       ELSE result = k

\* C1: Qwen with OAuth and Antigravity, complete and complete_streaming: when
\* the first upstream response is 401 and the second is 200 with a valid
\* completion, the call succeeds with the completion of the second response
\* and exactly two upstream requests are issued. (After a first 401 the call
\* ends without a second request only if the credential refresh itself failed.)
C1_RetryAfter401Succeeds ==
    (oauth_manager /\ NumRequests >= 1 /\ Requests[1].status = 401) =>
        /\ (pc = "done" /\ NumRequests = 1) => mgr.failed
        /\ (NumRequests >= 2 /\ Requests[2].status = 200 /\ Requests[2].body = "valid") =>
              /\ NumRequests = 2
              /\ \A i \in DOMAIN Chunks : Chunks[i].req = 2
              /\ pc = "done" => ReturnedCompletionOf(2)

C1_Witness ==
    /\ backend = "qwen" /\ ~api_key /\ streaming
    /\ pc = "done" /\ outcome = "ok"
    /\ NumRequests = 2
    /\ Requests[1].status = 401 /\ Requests[2].status = 200
    /\ Len(Chunks) = 2

\* C2: Qwen with OAuth and Antigravity: when the upstream answers 401 to the
\* first request and 401 again to the retry, the call raises AuthError, exactly
\* two upstream requests have been issued and no third is ever made.
C2_SecondUnauthorizedRaisesAuthError ==
    (oauth_manager /\ NumRequests >= 2
        /\ Requests[1].status = 401 /\ Requests[2].status = 401) =>
        /\ NumRequests = 2
        /\ pc = "done"
        /\ outcome = "AuthError"

C2_Witness ==
    /\ backend = "antigravity" /\ ~streaming
    /\ NumRequests = 2
    /\ Requests[1].status = 401 /\ Requests[2].status = 401
    /\ pc = "done" /\ outcome = "AuthError"

\* C3: Antigravity: a 403 on the first upstream request is handled like a 401:
\* one forced credential refresh, then exactly one retry; if the retry returns
\* 200 the call succeeds with exactly two upstream requests, in complete and in
\* complete_streaming.
C3_ForbiddenRetriedOnce ==
    (backend = "antigravity" /\ NumRequests >= 1 /\ Requests[1].status = 403) =>
        /\ NumRequests <= 2
        /\ (pc = "done" /\ NumRequests = 1) => mgr.failed
        /\ NumRequests = 2 =>
              /\ Cardinality(ForcedCalls) = 1
              /\ \A f \in ForcedCalls :
                    /\ \A i \in RequestAt(1) : i < f
                    /\ \A j \in RequestAt(2) : f < j
        /\ (NumRequests = 2 /\ Requests[2].status = 200 /\ Requests[2].body = "valid"
              /\ pc = "done") => ReturnedCompletionOf(2)

C3_Witness ==
    /\ backend = "antigravity" /\ streaming
    /\ NumRequests = 2
    /\ Requests[1].status = 403 /\ Requests[2].status = 200
    /\ pc = "done" /\ outcome = "ok"
    /\ Len(Chunks) = 1

\* The auth failures the claim C4 names: 401 for Qwen when OAuth is in use,
\* 401 or 403 for Antigravity.
AuthFailure(status) ==
    IF backend = "qwen" THEN status = 401 /\ ~api_key ELSE status \in {401, 403}

\* C4: a second upstream request is issued only for an auth failure on the
\* first request; in every other failing case (429, 5xx, other 4xx, 403 for
\* Qwen, 401 for Qwen with a static key, transport error) exactly one upstream
\* request is issued and the error surfaces to the caller.
C4_SecondRequestOnlyAfterAuthFailure ==
    /\ NumRequests >= 2 => AuthFailure(Requests[1].status)
    /\ (NumRequests >= 1 /\ Requests[1].status # 200
          /\ ~AuthFailure(Requests[1].status)) =>
          /\ NumRequests = 1
          /\ pc = "done"
          /\ outcome \notin {"none", "ok"}

C4_Witness ==
    /\ backend = "qwen" /\ api_key
    /\ NumRequests = 1 /\ Requests[1].status = 401
    /\ pc = "done" /\ outcome = "AuthError"

\* C5: within one adapter request the credential manager is asked with
\* force_refresh=false before the first upstream request, and with
\* force_refresh=true only after an auth-failure response to that first request
\* and before the second upstream request; force_refresh=true is requested at
\* most once and never when no auth failure was received.
C5_ForcedRefreshOnlyAfterAuthFailure ==
    /\ Cardinality(ForcedCalls) <= 1
    /\ \A f \in ForcedCalls :
          /\ \E i \in RequestAt(1) : i < f /\ AuthFailure(log[i].status)
          /\ \A j \in RequestAt(2) : f < j
    /\ \A j \in RequestAt(2) : \E f \in ForcedCalls : f < j
    /\ \A i \in RequestAt(1) :
          /\ \A c \in 1..(i - 1) : ~log[c].force
          /\ oauth_manager =>
                \E c \in 1..(i - 1) : log[c].ev = "ensure_authenticated" /\ ~log[c].force

C5_Witness ==
    /\ backend = "qwen"
    /\ Cardinality(ForcedCalls) = 1
    /\ NumRequests = 2
    /\ pc = "done"

\* the streaming call has ended on a 200 answer that is not an event stream
EndedOnNonStreamAnswer ==
    /\ streaming /\ pc = "done" /\ NumRequests > 0
    /\ Requests[NumRequests].status = 200
    /\ Requests[NumRequests].body # "valid"

\* C30: a streaming request answered 2xx with a content-type other than
\* text/event-stream emits no chunk and ends with an error, whatever the body:
\* a JSON error body, a body that is not JSON, an empty body.
C30_NonStreamAnswerRaises ==
    EndedOnNonStreamAnswer => (outcome # "ok" /\ Chunks = <<>>)

\* What does hold: no chunk is emitted, and the call ends with ValueError
\* when the body is not empty.
C30_RaisesUnlessBodyEmpty ==
    EndedOnNonStreamAnswer =>
        /\ Chunks = <<>>
        /\ Requests[NumRequests].body # "empty" => outcome = "ValueError"
        /\ Requests[NumRequests].body = "empty" => outcome = "ok"

(***************************************************************************)
(* PART 2 - ThinkingBlockParser (qwen/handler.py): <think>...</think>      *)
(* separation over a text delivered in chunks. Strings are sequences of    *)
(* one-character strings.                                                  *)
(***************************************************************************)
\* pieces a text is put together from
MaxPieces == 3

OPEN_TAG == <<"<", "t", "h", "i", "n", "k", ">">>
CLOSE_TAG == <<"<", "/", "t", "h", "i", "n", "k", ">">>
\* the literals of self._buffer[start_idx + 7 :] and self._buffer[end_idx + 8 :]
OPEN_TAG_SKIP == 7
CLOSE_TAG_SKIP == 8

\* str.find(sub): the 0-based index of the first occurrence, -1 when absent
find(s, sub) ==
    LET hits == {i \in 0..(Len(s) - Len(sub)) : SubSeq(s, i + 1, i + Len(sub)) = sub}
    IN  IF hits = {} THEN -1 ELSE CHOOSE i \in hits : \A j \in hits : i <= j

\* s[a:] and s[:a] for 0 <= a
SliceFrom(s, a) == SubSeq(s, a + 1, Len(s))
SliceTo(s, a) == SubSeq(s, 1, a)

\* The while True loop of ThinkingBlockParser.parse; the result is the parser
\* state left behind and the two strings returned.
RECURSIVE ParseLoop(_, _, _, _)
ParseLoop(buffer, in_thinking_block, regular_content, reasoning_content) ==
    IF in_thinking_block
    THEN LET end_idx == find(buffer, CLOSE_TAG) IN
         IF end_idx # -1
         THEN ParseLoop(SliceFrom(buffer, end_idx + CLOSE_TAG_SKIP), FALSE,
                        regular_content, reasoning_content \o SliceTo(buffer, end_idx))
         ELSE [buffer |-> <<>>, in_thinking_block |-> TRUE,
               regular |-> regular_content,
               reasoning |-> reasoning_content \o buffer]
    ELSE LET start_idx == find(buffer, OPEN_TAG) IN
         IF start_idx # -1
         THEN ParseLoop(SliceFrom(buffer, start_idx + OPEN_TAG_SKIP), TRUE,
                        regular_content \o SliceTo(buffer, start_idx), reasoning_content)
         ELSE [buffer |-> <<>>, in_thinking_block |-> FALSE,
               regular |-> regular_content \o buffer,
               reasoning |-> reasoning_content]

\* ThinkingBlockParser.parse(text) on the parser object p
parse(p, text) == ParseLoop(p.buffer \o text, p.in_thinking_block, <<>>, <<>>)

\* ThinkingBlockParser.__init__
NewParser == [buffer |-> <<>>, in_thinking_block |-> FALSE]

\* The texts of the model: up to MaxPieces pieces, each a plain character, a
\* lone "<", an opening tag or a closing tag; and the text of scenario S3.
Pieces == {<<"A">>, <<"<">>, OPEN_TAG, CLOSE_TAG}
RECURSIVE PieceTexts(_)
PieceTexts(n) ==
    IF n = 0 THEN {<<>>}
    ELSE LET shorter == PieceTexts(n - 1) IN
         shorter \cup {t \o q : t \in shorter, q \in Pieces}
S3Text == <<"A">> \o OPEN_TAG \o <<"B">> \o CLOSE_TAG \o <<"C">>
Texts == PieceTexts(MaxPieces) \cup {S3Text}

ParserInit ==
    /\ tb_text \in Texts
    /\ tb_fed = 0
    /\ tb_parser = NewParser
    /\ tb_content = <<>>
    /\ tb_reasoning = <<>>

\* The stream delivers the next n characters of the text as one chunk and the
\* adapter passes them to thinking_parser.parse.
FeedChunk ==
    /\ tb_fed < Len(tb_text)
    /\ \E n \in 1..(Len(tb_text) - tb_fed) :
        LET r == parse(tb_parser, SubSeq(tb_text, tb_fed + 1, tb_fed + n)) IN
        /\ tb_fed' = tb_fed + n
        /\ tb_parser' = [buffer |-> r.buffer, in_thinking_block |-> r.in_thinking_block]
        /\ tb_content' = tb_content \o r.regular
        /\ tb_reasoning' = tb_reasoning \o r.reasoning
    /\ UNCHANGED tb_text
    /\ ParserFrame

ParserNext == FeedChunk


\* The whole text in one call to a fresh parser.
WholeParse == parse(NewParser, tb_text)

\* C6: for any text and any split of it into consecutive chunks fed one by one
\* to parse, the concatenated content parts and the concatenated reasoning
\* parts equal what one call on the whole text returns; a tag split across
\* chunks is still recognised.
C6_ChunkedParseEqualsWholeParse ==
    tb_fed = Len(tb_text) =>
        /\ tb_content = WholeParse.regular
        /\ tb_reasoning = WholeParse.reasoning

\* Scenario S3 of C6: "A<thi", "nk>B</thi", "nk>C" gives content "AC" and
\* reasoning "B".
C6_S3Expected ==
    (tb_text = S3Text /\ tb_fed = Len(tb_text)) =>
        (tb_content = <<"A", "C">> /\ tb_reasoning = <<"B">>)

\* the tag occurs in s at the 0-based index i
TagAt(s, i, tag) == i + Len(tag) <= Len(s) /\ SubSeq(s, i + 1, i + Len(tag)) = tag
HasTag(s) == \E i \in 0..Len(s) : TagAt(s, i, OPEN_TAG) \/ TagAt(s, i, CLOSE_TAG)
\* the text has an opening tag with no closing tag after it
UnclosedOpenTag(s) ==
    \E i \in 0..Len(s) :
        /\ TagAt(s, i, OPEN_TAG)
        /\ \A j \in (i + 1)..Len(s) : ~TagAt(s, j, CLOSE_TAG)
\* The separation read from left to right: outside a block the next <think>
\* opens one, inside a block the next </think> closes it, every other
\* character goes to the channel of the side it is on.
RECURSIVE Separate(_, _, _, _)
Separate(s, inside, content, reasoning) ==
    IF s = <<>> THEN [content |-> content, reasoning |-> reasoning, inside |-> inside]
    ELSE IF ~inside /\ TagAt(s, 0, OPEN_TAG)
    THEN Separate(SliceFrom(s, Len(OPEN_TAG)), TRUE, content, reasoning)
    ELSE IF inside /\ TagAt(s, 0, CLOSE_TAG)
    THEN Separate(SliceFrom(s, Len(CLOSE_TAG)), FALSE, content, reasoning)
    ELSE IF inside
    THEN Separate(Tail(s), inside, content, Append(reasoning, Head(s)))
    ELSE Separate(Tail(s), inside, Append(content, Head(s)), reasoning)
\* the step of one call of parse on a fresh parser with the whole text
OneCallStep == tb_fed = 0 /\ tb_fed' = Len(tb_text)

\* C26: one call of parse on a fresh parser returns the text outside think
\* blocks as content and the text between each <think> and the next </think>
\* as reasoning, in order; neither tag appears in either output; the parser
\* ends inside a block exactly when the text has an opening tag with no later
\* closing tag.
C26_OneCallSeparatesBlocks ==
    [][OneCallStep =>
        /\ tb_content' = Separate(tb_text, FALSE, <<>>, <<>>).content
        /\ tb_reasoning' = Separate(tb_text, FALSE, <<>>, <<>>).reasoning
        /\ ~HasTag(tb_content') /\ ~HasTag(tb_reasoning')
        /\ tb_parser'.in_thinking_block <=> UnclosedOpenTag(tb_text)]_vars

\* What does hold: the separation and the final state, and no tag in the
\* outputs of a text whose tags alternate <think>, </think>, <think>, ...
C26_SeparationAndFinalState ==
    [][OneCallStep =>
        /\ tb_content' = Separate(tb_text, FALSE, <<>>, <<>>).content
        /\ tb_reasoning' = Separate(tb_text, FALSE, <<>>, <<>>).reasoning
        /\ tb_parser'.in_thinking_block = Separate(tb_text, FALSE, <<>>, <<>>).inside
        /\ tb_parser'.in_thinking_block <=> UnclosedOpenTag(tb_text)]_vars

(***************************************************************************)
(* JSON values as the adapters see them, by shape: the adapters branch on  *)
(* the type of a value (isinstance), on its truthiness (`or`, `if x`) and  *)
(* on its presence (dict.get).                                             *)
(***************************************************************************)
JsonTypes == {"object", "string", "list", "number"}
NoneValue == [type |-> "null", empty |-> TRUE]
\* the key is absent from the dict
MissingKey == [type |-> "missing", empty |-> TRUE]
\* empty: {}, "", [] or 0
JsonShapes ==
    {[type |-> t, empty |-> e] : t \in JsonTypes, e \in BOOLEAN} \cup {NoneValue, MissingKey}

\* dict.get(key): None for an absent key
get(v) == IF v = MissingKey THEN NoneValue ELSE v
\* a string-valued key: absent from the dict, or None
Absent == "<absent>"
None == "<None>"
\* dict.get(key) and dict.get(key, default) of a string-valued key
getstr(v) == IF v = Absent THEN None ELSE v
getdefault(v, default) == IF v = Absent THEN default ELSE v
\* bool(v)
truthy(v) == v.type \notin {"null", "missing"} /\ ~v.empty
\* a or b
or(a, b) == IF truthy(a) THEN a ELSE b
\* json.dumps(v): JSON text, never the empty string
json_dumps(v) == [type |-> "string", empty |-> FALSE]
\* the literal "{}"
EmptyObjectText == [type |-> "string", empty |-> FALSE]

\* revibe.core.types.FunctionCall and ToolCall: records of the fields given
\* (spec 3: FunctionCall {name, arguments}, ToolCall {id, index, function}).
FunctionCall(name, arguments) == [name |-> name, arguments |-> arguments]
ToolCall(id, index, function) == [id |-> id, index |-> index, function |-> function]

(***************************************************************************)
(* PART 3 - AntigravityBackend: the frames of one SSE stream.              *)
(***************************************************************************)
\* data frames of one stream
MaxStreamFrames == 2
\* parts of one frame
MaxParts == 2

FunctionNames == {"f", "g"}

\* A functionCall object {name, args} as upstream sends it: no "arguments", no
\* "id" and no "index" key (index -1: absent). NoCall: the part has none.
UpstreamToolCall(name, args, arguments) ==
    [name |-> name, args |-> args, arguments |-> arguments, id |-> "", index |-> -1]
FunctionCallObject(name, args) == UpstreamToolCall(name, args, MissingKey)
NoCall == FunctionCallObject("", MissingKey)

\* The parts of a candidate: {"text": t}, {"text": t, "thought": true},
\* {"functionCall": {...}}.
TextPart(t) == [text |-> t, thought |-> FALSE, functionCall |-> NoCall]
ThoughtPart(t) == [text |-> t, thought |-> TRUE, functionCall |-> NoCall]
CallPart(name) ==
    [text |-> <<>>, thought |-> FALSE,
     functionCall |-> FunctionCallObject(name, [type |-> "object", empty |-> FALSE])]

AgParts == {TextPart(<<"x">>), ThoughtPart(<<"t">>)} \cup {CallPart(n) : n \in FunctionNames}
AgFrames == UNION {[1..n -> AgParts] : n \in 0..MaxParts}

\* AntigravityBackend._parse_tool_calls, the loop body for the element fc at
\* enumeration index idx (the unwrapped form its callers pass).
Antigravity_parse_tool_call(fc, idx) ==
    LET args0 == or(get(fc.args), get(fc.arguments))
        args == IF args0.type = "object" THEN json_dumps(args0)
                ELSE IF args0.type = "null" THEN EmptyObjectText
                ELSE args0
        tc_index == IF fc.index # -1 THEN fc.index ELSE idx
    IN  ToolCall(fc.id, tc_index, FunctionCall(fc.name, args))

\* AntigravityBackend._parse_tool_calls; None is the empty sequence.
Antigravity_parse_tool_calls(tool_calls) ==
    [i \in DOMAIN tool_calls |-> Antigravity_parse_tool_call(tool_calls[i], i - 1)]

\* AntigravityBackend._handle_chunk_data: the loop over the parts.
RECURSIVE HandleParts(_, _, _, _)
HandleParts(parts, content, reasoning_content, tool_calls) ==
    IF parts = <<>>
    THEN [content |-> content, reasoning_content |-> reasoning_content,
          tool_calls |-> tool_calls]
    ELSE LET part == Head(parts) IN
         HandleParts(
            Tail(parts),
            IF part.text # <<>> THEN content \o part.text ELSE content,
            IF part.thought THEN part.text ELSE reasoning_content,
            IF part.functionCall # NoCall
            THEN Antigravity_parse_tool_calls(<<part.functionCall>>)
            ELSE tool_calls)

_handle_chunk_data(parts) == HandleParts(parts, <<>>, <<>>, <<>>)

\* _complete_streaming_with_retry: "Assign unique indices to tool calls based
\* on their name". tracker[n] = -1: n is not in tool_call_index_tracker.
RECURSIVE AssignIndices(_, _, _)
AssignIndices(tool_calls, tracker, next) ==
    IF tool_calls = <<>>
    THEN [tool_calls |-> <<>>, tracker |-> tracker, next |-> next]
    ELSE LET tc == Head(tool_calls)
             tool_name == tc.function.name
             new == tool_name # "" /\ tracker[tool_name] = -1
             tracker1 == IF new THEN [tracker EXCEPT ![tool_name] = next] ELSE tracker
             next1 == IF new THEN next + 1 ELSE next
             tc1 == IF tool_name # "" THEN [tc EXCEPT !.index = tracker1[tool_name]] ELSE tc
             rest == AssignIndices(Tail(tool_calls), tracker1, next1)
         IN  [tool_calls |-> <<tc1>> \o rest.tool_calls,
              tracker |-> rest.tracker, next |-> rest.next]

\* AntigravityBackend._create_llm_chunk (None is the empty sequence)
_create_llm_chunk(content, reasoning_content, tool_calls) ==
    [content |-> content, reasoning_content |-> reasoning_content,
     tool_calls |-> tool_calls]

IsCallPart(part) == part.functionCall # NoCall
\* the names of the functionCall parts of a frame, in part order
CallNames(parts) ==
    LET calls == SelectSeq(parts, IsCallPart)
    IN  [i \in DOMAIN calls |-> calls[i].functionCall.name]

StreamInit ==
    /\ tool_call_index_tracker = [n \in FunctionNames |-> -1]
    /\ next_tool_call_index = 0
    /\ ag_read = 0
    /\ ag_frame = <<>>
    /\ ag_chunk = _create_llm_chunk(<<>>, <<>>, <<>>)
    /\ ag_seen = <<>>
    /\ ag_emitted = <<>>

\* One pass of `async for line in response.aiter_lines()` over a data frame
\* that decodes to a candidate with the given parts: the chunk is built, its
\* tool calls are given their indices, and it is yielded.
ReadStreamFrame ==
    /\ ag_read < MaxStreamFrames
    /\ \E parts \in AgFrames :
        LET h == _handle_chunk_data(parts)
            a == AssignIndices(h.tool_calls, tool_call_index_tracker, next_tool_call_index)
        IN  /\ ag_frame' = parts
            /\ ag_chunk' = _create_llm_chunk(h.content, h.reasoning_content, a.tool_calls)
            /\ tool_call_index_tracker' = a.tracker
            /\ next_tool_call_index' = a.next
            /\ ag_seen' = ag_seen \o CallNames(parts)
            /\ ag_emitted' = ag_emitted \o a.tool_calls
    /\ ag_read' = ag_read + 1
    /\ StreamFrameVars

StreamNext == ReadStreamFrame


\* The distinct names of a sequence of names, in order of first appearance.
RECURSIVE FirstAppearances(_, _)
FirstAppearances(names, acc) ==
    IF names = <<>> THEN acc
    ELSE IF \E i \in DOMAIN acc : acc[i] = Head(names)
         THEN FirstAppearances(Tail(names), acc)
         ELSE FirstAppearances(Tail(names), Append(acc, Head(names)))

\* 0-based position of a name in a sequence that holds it
PositionOf(name, order) == (CHOOSE i \in DOMAIN order : order[i] = name) - 1

\* C7: in a stream containing function-call fragments across J distinct names
\* (over all frames and all parts of each frame), every fragment of a name is
\* emitted with the same index, and the indices assigned are exactly 0..J-1 in
\* order of first appearance of the names.
C7_IndicesFollowFirstAppearance ==
    LET order == FirstAppearances(ag_seen, <<>>) IN
    /\ \A i \in DOMAIN ag_emitted :
          ag_emitted[i].index = PositionOf(ag_emitted[i].function.name, order)
    /\ {ag_emitted[i].index : i \in DOMAIN ag_emitted} = 0..(Len(order) - 1)

\* C7 restricted to streams in which no functionCall part was dropped (every
\* frame so far carried at most one): there the claim holds.
C7_HoldsWhenNoCallDropped ==
    Len(ag_emitted) = Len(ag_seen) => C7_IndicesFollowFirstAppearance

\* C33: in one stream two distinct tool calls never get the same index, two
\* calls of the same function included.
C33_DistinctCallsDistinctIndices ==
    \A i, j \in DOMAIN ag_emitted : i # j => ag_emitted[i].index # ag_emitted[j].index

\* What does hold: the index is a function of the call's name, so calls of
\* different functions get different indices and calls of one function the
\* same index.
C33_IndexFollowsName ==
    \A i, j \in DOMAIN ag_emitted :
        (ag_emitted[i].index = ag_emitted[j].index)
            <=> (ag_emitted[i].function.name = ag_emitted[j].function.name)

\* the names of the tool calls of the chunk
ChunkCallNames == [i \in DOMAIN ag_chunk.tool_calls |-> ag_chunk.tool_calls[i].function.name]

\* C34: every functionCall part of a frame yields a ToolCall: for n such parts
\* the chunk carries n tool calls, in part order.
C34_EveryCallPartEmitted ==
    ag_read > 0 => ChunkCallNames = CallNames(ag_frame)

\* What does hold: the chunk carries the call of the last functionCall part
\* of the frame, and no other.
C34_LastCallPartOnly ==
    ag_read > 0 =>
        LET names == CallNames(ag_frame) IN
        ChunkCallNames = IF names = <<>> THEN <<>> ELSE <<names[Len(names)]>>

IsThoughtPart(part) == part.thought
IsPlainPart(part) == ~part.thought
\* the concatenation of the text of the parts
RECURSIVE ConcatText(_)
ConcatText(parts) ==
    IF parts = <<>> THEN <<>> ELSE Head(parts).text \o ConcatText(Tail(parts))

\* C27: for every frame, the emitted content is the concatenation of the text
\* of the parts not marked thought and the emitted reasoning_content is the
\* concatenation of the text of the parts marked thought: a thought's text
\* never appears in content and no thought's text is lost.
C27_ThoughtTextSeparated ==
    ag_read > 0 =>
        /\ ag_chunk.content = ConcatText(SelectSeq(ag_frame, IsPlainPart))
        /\ ag_chunk.reasoning_content = ConcatText(SelectSeq(ag_frame, IsThoughtPart))

\* What does hold: content is the text of all the parts, thoughts included,
\* and reasoning_content is the text of the last thought part alone.
C27_ContentHoldsEveryText ==
    ag_read > 0 =>
        LET thoughts == SelectSeq(ag_frame, IsThoughtPart) IN
        /\ ag_chunk.content = ConcatText(ag_frame)
        /\ ag_chunk.reasoning_content =
               IF thoughts = <<>> THEN <<>> ELSE thoughts[Len(thoughts)].text

(***************************************************************************)
(* PART 4 - the arguments of an emitted ToolCall, for every shape of the   *)
(* upstream value, in the four adapters.                                   *)
(***************************************************************************)
Adapters == {"antigravity", "qwen", "huggingface", "openai"}

\* The result of parsing one upstream tool call: the ToolCall built, or an
\* exception (KeyError) and no ToolCall.
Parsed(tool_call) == [raised |-> FALSE, tool_call |-> tool_call]
NoToolCall == ToolCall("", -1, FunctionCall("", NoneValue))
Raised == [raised |-> TRUE, tool_call |-> NoToolCall]

\* QwenBackend: the ToolCall built from a delta's tool call in
\* _complete_streaming_with_retry, and by _parse_tool_calls for complete:
\* arguments=tc.get("function", {}).get("arguments").
Qwen_parse_tool_call(tc) ==
    Parsed(ToolCall(getstr(tc.id), tc.index,
                    FunctionCall(getstr(tc.name), get(tc.arguments))))

\* OpenAIMapper.parse_tool_calls, for one tool call (a dict).
OpenAIMapper_parse_tool_call(tc) ==
    IF tc.name = Absent \/ tc.arguments = MissingKey
    THEN Raised
    ELSE Parsed(ToolCall(getdefault(tc.id, ""), IF tc.index = -1 THEN 0 ELSE tc.index,
                FunctionCall(tc.name,
                    IF tc.arguments.type = "string" THEN tc.arguments
                    ELSE json_dumps(tc.arguments))))

\* HuggingFaceMapper.parse_tool_calls, for one tool call.
HuggingFaceMapper_parse_tool_call(tc) ==
    IF tc.name = Absent \/ tc.arguments = MissingKey
    THEN Raised
    ELSE Parsed(ToolCall(getdefault(tc.id, ""), IF tc.index = -1 THEN 0 ELSE tc.index,
                FunctionCall(tc.name,
                    IF tc.arguments.type = "string" THEN tc.arguments
                    ELSE json_dumps(tc.arguments))))

\* The upstream tool calls of the model: every shape under "arguments" and,
\* for Antigravity's functionCall, under "args" as well.
UpstreamToolCalls(adapter) ==
    {UpstreamToolCall("f", a, b) :
        a \in (IF adapter = "antigravity" THEN JsonShapes ELSE {MissingKey}),
        b \in JsonShapes}

ArgsInit ==
    /\ ta_adapter \in Adapters
    /\ ta_call \in UpstreamToolCalls(ta_adapter)
    /\ ta_pc = "input"
    /\ ta_out = Raised

\* No tool call is being parsed (the other parts' specifications).
ArgsIdle ==
    /\ ta_adapter = "qwen"
    /\ ta_call = UpstreamToolCall("f", MissingKey, MissingKey)
    /\ ta_pc = "idle"
    /\ ta_out = Raised

\* The adapter parses the tool call of a response or of a stream delta.
ParseToolCall ==
    /\ ta_pc = "input"
    /\ ta_pc' = "parsed"
    /\ ta_out' =
          CASE ta_adapter = "antigravity" ->
                  Parsed(Antigravity_parse_tool_calls(<<ta_call>>)[1])
            [] ta_adapter = "qwen" -> Qwen_parse_tool_call(ta_call)
            [] ta_adapter = "openai" -> OpenAIMapper_parse_tool_call(ta_call)
            [] ta_adapter = "huggingface" -> HuggingFaceMapper_parse_tool_call(ta_call)
    /\ UNCHANGED <<ta_adapter, ta_call>>
    /\ ArgsFrame

ArgsNext == ParseToolCall

\* C8: for every ToolCall emitted by the Antigravity, Qwen, OpenAI and
\* HuggingFace adapters, for every shape of the upstream arguments value
\* (object, string, list, number, null, missing), function.arguments is null or
\* a string; never a parsed object, list or number.
C8_ArgumentsNullOrString ==
    (ta_pc = "parsed" /\ ~ta_out.raised) =>
        ta_out.tool_call.function.arguments.type \in {"null", "string"}

\* What does hold: the two mappers always emit a string.
C8_MappersEmitStrings ==
    (ta_pc = "parsed" /\ ~ta_out.raised /\ ta_adapter \in {"openai", "huggingface"}) =>
        ta_out.tool_call.function.arguments.type = "string"

(***************************************************************************)
(* PART 5 - concurrent requests of one adapter calling ensure_authenticated *)
(* on its OAuth manager while the stored token is expired.  The managers   *)
(* (QwenOAuthManager, AntigravityOAuthManager) are modelled from the        *)
(* specification, section 4.2 and section 9: a mutex, the cached           *)
(* credentials and their expiry.  The callers are the adapters' requests.  *)
(***************************************************************************)
NumCallers == 3
\* refresh transport failures are retried up to 3 attempts
MAX_REFRESH_ATTEMPTS == 3

Callers == 1..NumCallers

\* The calls of ensure_authenticated one request makes before it is sent:
\* QwenBackend calls it in _get_auth_headers and again in _get_base_url,
\* AntigravityBackend in _get_auth_headers only.
AfterEnsure(position) ==
    IF oa_backend = "qwen" /\ position = "auth_headers" THEN "base_url" ELSE "send"

Calling(c) == oa_pc[c] \in {"auth_headers", "base_url"}

\* the single-flight primitive: one caller at a time is inside the manager
LockFree_ignored == TRUE
LockFree == oa_lock = 0

\* "If force_refresh OR now + skew > expires_at, performs a refresh"; the
\* requests here are first attempts, force_refresh=False.
MustRefresh(force) == force \/ oa_expired

\* ensure_authenticated, token still valid: the cached token is returned.
ReturnCached(c) ==
    /\ Calling(c)
    /\ LockFree
    /\ ~MustRefresh(FALSE)
    /\ oa_got' = [oa_got EXCEPT ![c] = oa_token]
    /\ oa_pc' = [oa_pc EXCEPT ![c] = AfterEnsure(oa_pc[c])]
    /\ UNCHANGED <<oa_backend, oa_lock, oa_token, oa_expired, oa_attempts,
                   oa_refresh_requests, oa_failed>>
    /\ OAuthFrame

\* ensure_authenticated, token expired: the caller takes the mutex and sends
\* the refresh request; the other callers wait.
StartRefresh(c) ==
    /\ Calling(c)
    /\ LockFree
    /\ MustRefresh(FALSE)
    /\ oa_lock' = c
    /\ oa_attempts' = 1
    /\ oa_refresh_requests' = oa_refresh_requests + 1
    /\ UNCHANGED <<oa_backend, oa_pc, oa_got, oa_token, oa_expired, oa_failed>>
    /\ OAuthFrame

\* The refresh request succeeds: the in-memory credentials are updated and the
\* caller returns the new token.
RefreshSucceeds(c) ==
    /\ oa_lock = c
    /\ oa_attempts > 0
    /\ oa_token' = oa_token + 1
    /\ oa_expired' = FALSE
    /\ oa_got' = [oa_got EXCEPT ![c] = oa_token + 1]
    /\ oa_pc' = [oa_pc EXCEPT ![c] = AfterEnsure(oa_pc[c])]
    /\ oa_lock' = 0
    /\ oa_attempts' = 0
    /\ UNCHANGED <<oa_backend, oa_refresh_requests, oa_failed>>
    /\ OAuthFrame

\* The refresh request fails in transport and is sent again.
RefreshRetried(c) ==
    /\ oa_lock = c
    /\ oa_attempts > 0
    /\ oa_attempts < MAX_REFRESH_ATTEMPTS
    /\ oa_attempts' = oa_attempts + 1
    /\ oa_refresh_requests' = oa_refresh_requests + 1
    /\ oa_failed' = TRUE
    /\ UNCHANGED <<oa_backend, oa_pc, oa_got, oa_lock, oa_token, oa_expired>>
    /\ OAuthFrame

\* The refresh fails for good (invalid_grant, or the last attempt's transport
\* failure): AuthError surfaces to the caller, the token stays expired.
RefreshFails(c) ==
    /\ oa_lock = c
    /\ oa_attempts > 0
    /\ oa_failed' = TRUE
    /\ oa_pc' = [oa_pc EXCEPT ![c] = "AuthError"]
    /\ oa_lock' = 0
    /\ oa_attempts' = 0
    /\ UNCHANGED <<oa_backend, oa_got, oa_token, oa_expired, oa_refresh_requests>>
    /\ OAuthFrame

OAuthInit ==
    /\ oa_backend \in {"qwen", "antigravity"}
    /\ oa_pc = [c \in Callers |-> "auth_headers"]
    /\ oa_got = [c \in Callers |-> -1]
    /\ oa_lock = 0
    /\ oa_token = 0
    /\ oa_expired = TRUE
    /\ oa_attempts = 0
    /\ oa_refresh_requests = 0
    /\ oa_failed = FALSE

\* No request is calling the manager (the other parts' specifications).
OAuthIdle ==
    /\ oa_backend = "qwen"
    /\ oa_pc = [c \in Callers |-> "send"]
    /\ oa_got = [c \in Callers |-> -1]
    /\ oa_lock = 0
    /\ oa_token = 0
    /\ oa_expired = FALSE
    /\ oa_attempts = 0
    /\ oa_refresh_requests = 0
    /\ oa_failed = FALSE

OAuthNext ==
    \E c \in Callers :
        \/ ReturnCached(c)
        \/ StartRefresh(c)
        \/ RefreshSucceeds(c)
        \/ RefreshRetried(c)
        \/ RefreshFails(c)

MaxClients == 3

ExitKinds == {"success", "exception", "cancellation"}
\* the adapters that define close()
HasClose == {"qwen", "antigravity"}

\* httpx.AsyncClient(...) / openai.AsyncOpenAI(...): a new, open client
NewClient == lc_created + 1

\* __aenter__ (the same in the four adapters): self._client = <new client>
aenter ==
    /\ lc_scope = "outside"
    /\ lc_created < MaxClients
    /\ lc_client' = NewClient
    /\ lc_created' = NewClient
    /\ lc_open' = lc_open \cup {NewClient}
    /\ lc_entered' = NewClient
    /\ lc_scope' = "inside"
    /\ UNCHANGED <<lc_adapter, lc_owns_client, lc_exited, lc_exit_kind>>
    /\ ClientFrame

\* _get_client, called by a request: a client is created when there is none.
get_client ==
    /\ lc_client = 0
    /\ lc_created < MaxClients
    /\ lc_client' = NewClient
    /\ lc_created' = NewClient
    /\ lc_open' = lc_open \cup {NewClient}
    /\ lc_owns_client' = TRUE
    /\ UNCHANGED <<lc_adapter, lc_scope, lc_entered, lc_exited, lc_exit_kind>>
    /\ ClientFrame

\* if self._owns_client and self._client: await self._client.aclose()
CloseOwned == IF lc_owns_client /\ lc_client # 0 THEN lc_open \ {lc_client} ELSE lc_open

\* QwenBackend.close / AntigravityBackend.close
close ==
    /\ lc_adapter \in HasClose
    /\ lc_client # 0
    /\ lc_open' = CloseOwned
    /\ lc_client' = IF lc_owns_client THEN 0 ELSE lc_client
    /\ UNCHANGED <<lc_adapter, lc_owns_client, lc_created, lc_scope, lc_entered,
                   lc_exited, lc_exit_kind>>
    /\ ClientFrame

\* The scope is left: the body ended in `kind`.
LeaveScope(kind) ==
    /\ lc_scope = "inside"
    /\ lc_scope' = "outside"
    /\ lc_exited' = lc_exited \cup {lc_entered}
    /\ lc_exit_kind' = kind
    /\ UNCHANGED <<lc_adapter, lc_owns_client, lc_created, lc_entered>>
    /\ ClientFrame

\* QwenBackend.__aexit__
Qwen_aexit(kind) ==
    /\ lc_adapter = "qwen"
    /\ LeaveScope(kind)
    /\ lc_open' = CloseOwned
    /\ lc_client' = IF lc_owns_client THEN 0 ELSE lc_client

\* AntigravityBackend.__aexit__
Antigravity_aexit(kind) ==
    /\ lc_adapter = "antigravity"
    /\ LeaveScope(kind)
    /\ lc_open' = CloseOwned
    /\ lc_client' = IF lc_owns_client THEN 0 ELSE lc_client

\* HuggingFaceBackend.__aexit__: the client is closed, self._client is kept
HuggingFace_aexit(kind) ==
    /\ lc_adapter = "huggingface"
    /\ LeaveScope(kind)
    /\ lc_open' = CloseOwned
    /\ UNCHANGED lc_client

\* OpenAIBackend.__aexit__: pass
OpenAI_aexit(kind) ==
    /\ lc_adapter = "openai"
    /\ LeaveScope(kind)
    /\ UNCHANGED <<lc_open, lc_client>>

ClientInit ==
    /\ lc_adapter \in Adapters
    /\ lc_client = 0
    /\ lc_owns_client = TRUE
    /\ lc_created = 0
    /\ lc_open = {}
    /\ lc_scope = "outside"
    /\ lc_entered = 0
    /\ lc_exited = {}
    /\ lc_exit_kind = "none"

\* No adapter object is in use (the other parts' specifications).
ClientIdle ==
    /\ lc_adapter = "qwen"
    /\ lc_client = 0
    /\ lc_owns_client = TRUE
    /\ lc_created = 0
    /\ lc_open = {}
    /\ lc_scope = "idle"
    /\ lc_entered = 0
    /\ lc_exited = {}
    /\ lc_exit_kind = "none"

ClientNext ==
    \/ aenter
    \/ get_client
    \/ close
    \/ \E kind \in ExitKinds :
          \/ Qwen_aexit(kind)
          \/ Antigravity_aexit(kind)
          \/ HuggingFace_aexit(kind)
          \/ OpenAI_aexit(kind)

\* C10: for every adapter (Qwen, Antigravity, HuggingFace, OpenAI), the client
\* acquired by __aenter__ is closed once its scope has been exited, whether the
\* body ended by success, by an exception or by cancellation.
C10_EnteredClientReleasedOnExit ==
    \A id \in lc_exited : id \notin lc_open

\* What does hold: the three adapters whose __aexit__ closes the client.
C10_ReleasedExceptOpenAI ==
    lc_adapter # "openai" => \A id \in lc_exited : id \notin lc_open

\* a step of __aexit__ (the scope is left) or of close() (the client is dropped)
ExitOrCloseStep ==
    \/ lc_scope = "inside" /\ lc_scope' = "outside"
    \/ lc_scope' = lc_scope /\ lc_client # 0 /\ lc_client' = 0

\* C23: over any sequence of __aenter__, lazy _get_client, __aexit__ and close
\* on one Qwen, Antigravity or HuggingFace adapter, at most one client created
\* by the adapter is open at any time, and none is open after an __aexit__ or
\* a close.
C23_AtMostOneOpenClient ==
    /\ [](lc_adapter \in {"qwen", "antigravity", "huggingface"} => Cardinality(lc_open) <= 1)
    /\ [][(lc_adapter \in {"qwen", "antigravity", "huggingface"} /\ ExitOrCloseStep)
            => lc_open' = {}]_vars

\* What does hold: a client left open besides the current one is one that
\* _get_client created before the scope was entered, replaced by __aenter__.
C23_OnlyReplacedClientsLeak ==
    lc_adapter # "openai" => \A id \in lc_open : id = lc_client \/ id < lc_entered

(***************************************************************************)
(* PART 7 - the caller abandons a streaming completion after some chunks.  *)
(* complete_streaming is an async generator: it runs only while the caller *)
(* awaits its next chunk, and it is ended at a suspension point by an       *)
(* exception raised there: CancelledError when the caller's task is         *)
(* cancelled during a network read, GeneratorExit at the `yield` when the   *)
(* abandoned generator is closed (aclose, or the event loop's finalizer).   *)
(***************************************************************************)
MaxChunks == 3

StreamingAdapters == {"qwen", "antigravity", "huggingface"}

\* QwenBackend and AntigravityBackend read the lines inside
\* `async with client.stream(...) as response`; HuggingFaceBackend._make_request
\* awaits client.post, which reads the whole body and releases the connection
\* before the first line is looked at.
OpenedResponse(adapter) == IF adapter = "huggingface" THEN "closed" ELSE "open"

\* The end of `async with client.stream(...)`, on every way out of the block:
\* the response is closed.
StreamContextExit_leaks(response) == response
StreamContextExit(response) == IF response = "open" THEN "closed" ELSE response

\* QwenBackend.complete_streaming and AntigravityBackend.complete_streaming
\* iterate _complete_streaming_with_retry and re-yield its chunks;
\* HuggingFaceBackend.complete_streaming reads the response itself.
HasWrapper(adapter) == adapter \in {"qwen", "antigravity"}

\* The first __anext__: the request is sent and the response is opened.
OpenStream ==
    /\ ab_caller = "iterating"
    /\ ab_gen = "created"
    /\ ab_gen' = "reading"
    /\ ab_response' = OpenedResponse(ab_adapter)
    /\ UNCHANGED <<ab_adapter, ab_caller, ab_wrapper, ab_left, ab_emitted, ab_at_abandon>>
    /\ AbandonFrame

\* A data frame is read and its chunk is yielded to the caller.
YieldChunk ==
    /\ ab_gen = "reading"
    /\ ab_left > 0
    /\ ab_left' = ab_left - 1
    /\ ab_emitted' = ab_emitted + 1
    /\ ab_gen' = "yielded"
    /\ UNCHANGED <<ab_adapter, ab_caller, ab_wrapper, ab_response, ab_at_abandon>>
    /\ AbandonFrame

\* The server ends the stream: the loop over the lines and the generator end.
StreamEnds ==
    /\ ab_gen = "reading"
    /\ ab_left = 0
    /\ ab_gen' = "finished"
    /\ ab_response' = StreamContextExit(ab_response)
    /\ ab_wrapper' = IF HasWrapper(ab_adapter) THEN "closed" ELSE ab_wrapper
    /\ UNCHANGED <<ab_adapter, ab_caller, ab_left, ab_emitted, ab_at_abandon>>
    /\ AbandonFrame

\* The caller asks for the next chunk: the generator goes on after its yield.
Anext ==
    /\ ab_caller = "iterating"
    /\ ab_gen = "yielded"
    /\ ab_gen' = "reading"
    /\ UNCHANGED <<ab_adapter, ab_caller, ab_wrapper, ab_response, ab_left, ab_emitted,
                   ab_at_abandon>>
    /\ AbandonFrame

\* The caller stops iterating after a chunk (break, return, an exception or a
\* cancellation in its own code): the generators stay suspended at their yield.
CallerStops ==
    /\ ab_caller = "iterating"
    /\ ab_gen = "yielded"
    /\ ab_caller' = "abandoned"
    /\ ab_at_abandon' = ab_emitted
    /\ UNCHANGED <<ab_adapter, ab_wrapper, ab_gen, ab_response, ab_left, ab_emitted>>
    /\ AbandonFrame

\* The caller's task is cancelled while the generator awaits the next line of
\* an open response: CancelledError is raised at that await, leaves the
\* `async with` block and propagates through complete_streaming to the caller.
CallerCancelled ==
    /\ ab_caller = "iterating"
    /\ ab_gen = "reading"
    /\ ab_response = "open"
    /\ ab_emitted > 0
    /\ ab_caller' = "abandoned"
    /\ ab_at_abandon' = ab_emitted
    /\ ab_gen' = "closed"
    /\ ab_wrapper' = IF HasWrapper(ab_adapter) THEN "closed" ELSE ab_wrapper
    /\ ab_response' = StreamContextExit(ab_response)
    /\ UNCHANGED <<ab_adapter, ab_left, ab_emitted>>
    /\ AbandonFrame

\* The abandoned complete_streaming of Qwen/Antigravity is closed:
\* GeneratorExit is raised at its `yield chunk`; the generator it iterates is
\* left suspended, with no owner.
WrapperClosed ==
    /\ ab_caller = "abandoned"
    /\ ab_wrapper = "suspended"
    /\ ab_gen = "yielded"
    /\ ab_wrapper' = "closed"
    /\ UNCHANGED <<ab_adapter, ab_caller, ab_gen, ab_response, ab_left, ab_emitted,
                   ab_at_abandon>>
    /\ AbandonFrame

\* The abandoned generator that holds the response is closed: GeneratorExit is
\* raised at its yield and leaves the `async with` block.
GeneratorClosed ==
    /\ ab_caller = "abandoned"
    /\ ab_wrapper # "suspended"
    /\ ab_gen = "yielded"
    /\ ab_gen' = "closed"
    /\ ab_response' = StreamContextExit(ab_response)
    /\ UNCHANGED <<ab_adapter, ab_caller, ab_wrapper, ab_left, ab_emitted, ab_at_abandon>>
    /\ AbandonFrame

AbandonInit ==
    /\ ab_adapter \in StreamingAdapters
    /\ ab_caller = "iterating"
    /\ ab_wrapper = IF HasWrapper(ab_adapter) THEN "suspended" ELSE "none"
    /\ ab_gen = "created"
    /\ ab_response = "none"
    /\ ab_left \in 0..MaxChunks
    /\ ab_emitted = 0
    /\ ab_at_abandon = -1

\* No stream is being consumed (the other parts' specifications).
AbandonIdle ==
    /\ ab_adapter = "qwen"
    /\ ab_caller = "idle"
    /\ ab_wrapper = "none"
    /\ ab_gen = "created"
    /\ ab_response = "none"
    /\ ab_left = 0
    /\ ab_emitted = 0
    /\ ab_at_abandon = -1

AbandonNext ==
    \/ OpenStream
    \/ YieldChunk
    \/ StreamEnds
    \/ Anext
    \/ CallerStops
    \/ CallerCancelled
    \/ WrapperClosed
    \/ GeneratorClosed

MaxLines == 3

\* A tool-call fragment of a delta: {"index", "id"?, "function": {"name"?, "arguments"}}
Fragment(id, index, name, arguments) ==
    [name |-> name, args |-> MissingKey, arguments |-> arguments, id |-> id, index |-> index]
\* a JSON string with its text
StringValue(text) == [type |-> "string", empty |-> text = "", text |-> text]
NoFragment == Fragment(Absent, -1, Absent, MissingKey)
\* the first fragment of a call carries id and name, a continuation fragment
\* only the index and the next piece of the arguments
FirstFragment == Fragment("call_1", 1, "f", StringValue("{\"pa"))
ContinuationFragment == Fragment(Absent, 1, Absent, StringValue("th\":1}"))

\* One line of the response body.
\*   field:   "blank" (empty line), "event" (a field other than data), "data",
\*            "json" (a standalone JSON error envelope {"error": {"message": m}},
\*            not a field:value line), "text" (a line without a colon, not JSON)
\*   space:   the colon of `data:` is followed by a space
\*   payload: "done" ([DONE]), "malformed" (not JSON), "error" (an object with
\*            a top-level "error" key), "frame" (any other JSON object)
\*   choices: of a frame, "delta" (choices[0].delta) or "empty" (choices: [])
BlankLine ==
    [field |-> "blank", space |-> FALSE, payload |-> "none", choices |-> "none",
     fragment |-> NoFragment]
EventLine ==
    [field |-> "event", space |-> TRUE, payload |-> "none", choices |-> "none",
     fragment |-> NoFragment]
EnvelopeLine ==
    [field |-> "json", space |-> FALSE, payload |-> "error", choices |-> "none",
     fragment |-> NoFragment]
TextLine ==
    [field |-> "text", space |-> FALSE, payload |-> "none", choices |-> "none",
     fragment |-> NoFragment]
\* ":" in line: a JSON object with a key has a colon after the key
HasColon(line) == line.field \in {"event", "data", "json"}
\* line[:line.find(":")].strip(): of the envelope, the text `{"error"`
Key(line) == IF line.field = "json" THEN "{\"error\"" ELSE line.field
DataLine(space, payload, choices, fragment) ==
    [field |-> "data", space |-> space, payload |-> payload, choices |-> choices,
     fragment |-> fragment]

SseLines ==
    {BlankLine, EventLine, EnvelopeLine, TextLine,
     DataLine(TRUE, "done", "none", NoFragment),
     DataLine(TRUE, "malformed", "none", NoFragment),
     DataLine(TRUE, "error", "none", NoFragment),
     DataLine(TRUE, "frame", "delta", NoFragment),
     DataLine(FALSE, "frame", "delta", NoFragment),
     DataLine(TRUE, "frame", "empty", NoFragment),
     DataLine(TRUE, "frame", "delta", FirstFragment),
     DataLine(TRUE, "frame", "delta", ContinuationFragment)}

\* What the loop body does with a line.
Continue == [do |-> "continue", tool_calls |-> <<>>, error |-> "none"]
Yield(tool_calls) == [do |-> "yield", tool_calls |-> tool_calls, error |-> "none"]
Raise(error) == [do |-> "raise", tool_calls |-> <<>>, error |-> error]

\* QwenBackend._complete_streaming_with_retry, the body of the loop.
Qwen_stream_line(line) ==
    IF line.field = "blank" THEN Continue
    \* `if ":" not in line`: json.loads fails, `pass`, `continue`
    ELSE IF ~HasColon(line) THEN Continue
    ELSE IF Key(line) # "data" THEN Continue
    ELSE IF line.payload = "done" THEN Continue
    ELSE IF line.payload = "malformed" THEN Continue
    ELSE IF line.payload = "error" THEN Raise("ValueError")
    ELSE Yield(IF line.fragment = NoFragment THEN <<>>
               ELSE <<Qwen_parse_tool_call(line.fragment).tool_call>>)

\* AntigravityBackend._complete_streaming_with_retry, the body of the loop
\* (_parse_sse_line, _parse_chunk_data, _handle_chunk_error); the tool calls
\* of a frame come from its functionCall parts, see part 3.
Antigravity_stream_line(line) ==
    IF line.field = "blank" THEN Continue
    \* _parse_sse_line returns None
    ELSE IF ~HasColon(line) THEN Continue
    ELSE IF Key(line) # "data" THEN Continue
    ELSE IF line.payload = "done" THEN Continue
    ELSE IF line.payload = "malformed" THEN Continue
    ELSE IF line.payload = "error" THEN Raise("ValueError")
    ELSE Yield(<<>>)

\* HuggingFaceBackend.complete_streaming, the body of the loop.
HuggingFace_stream_line(line) ==
    IF line.field = "blank" THEN Continue
    ELSE IF line.field = "data" /\ line.space /\ line.payload = "done" THEN Continue
    ELSE IF line.field = "data" /\ line.space
    THEN IF line.payload = "malformed" THEN Continue
         \* chunk.get("choices", [{}])[0]: {} for a frame without "choices"
         ELSE IF line.payload = "error" THEN Yield(<<>>)
         ELSE IF line.choices = "empty" THEN Raise("IndexError")
         ELSE IF line.fragment = NoFragment THEN Yield(<<>>)
         ELSE IF HuggingFaceMapper_parse_tool_call(line.fragment).raised
              THEN Raise("KeyError")
              ELSE Yield(<<HuggingFaceMapper_parse_tool_call(line.fragment).tool_call>>)
    ELSE Continue

\* One pass of the loop over `line`, with the outcome `r` of its body.
ReadLine(line, r) ==
    /\ ss_state = "streaming"
    /\ Len(ss_lines) < MaxLines
    /\ ss_lines' = Append(ss_lines, line)
    /\ ss_chunks' = IF r.do = "yield"
                    THEN Append(ss_chunks, [line |-> Len(ss_lines) + 1,
                                            tool_calls |-> r.tool_calls])
                    ELSE ss_chunks
    /\ ss_state' = IF r.do = "raise" THEN "raised" ELSE ss_state
    /\ ss_error' = r.error
    /\ UNCHANGED ss_adapter
    /\ SseFrame

Qwen_read_line ==
    /\ ss_adapter = "qwen"
    /\ \E line \in SseLines : ReadLine(line, Qwen_stream_line(line))

Antigravity_read_line ==
    /\ ss_adapter = "antigravity"
    /\ \E line \in SseLines : ReadLine(line, Antigravity_stream_line(line))

HuggingFace_read_line ==
    /\ ss_adapter = "huggingface"
    /\ \E line \in SseLines : ReadLine(line, HuggingFace_stream_line(line))

SseInit ==
    /\ ss_adapter \in StreamingAdapters
    /\ ss_lines = <<>>
    /\ ss_chunks = <<>>
    /\ ss_state = "streaming"
    /\ ss_error = "none"

\* No response is being read (the other parts' specifications).
SseIdle ==
    /\ ss_adapter = "qwen"
    /\ ss_lines = <<>>
    /\ ss_chunks = <<>>
    /\ ss_state = "idle"
    /\ ss_error = "none"

SseNext ==
    \/ Qwen_read_line
    \/ Antigravity_read_line
    \/ HuggingFace_read_line

\* a well-formed, non-error data frame
IsFrame(line) == line.field = "data" /\ line.payload = "frame"
\* an error frame
IsErrorFrame(line) == line.field = "data" /\ line.payload = "error"
\* the positions of the well-formed non-error data frames among the first n
\* lines, in order
RECURSIVE FramePositions(_, _)
FramePositions(lines, n) ==
    IF n = 0 THEN <<>>
    ELSE IF IsFrame(lines[n])
         THEN Append(FramePositions(lines, n - 1), n)
         ELSE FramePositions(lines, n - 1)
ChunkLines == [i \in DOMAIN ss_chunks |-> ss_chunks[i].line]

\* C12: the chunks emitted within one streaming response are, in server order,
\* exactly one per well-formed non-error data frame; blank lines, other fields
\* and malformed data lines produce no chunk and do not end the stream.
C12_OneChunkPerFrameInOrder ==
    /\ ChunkLines = FramePositions(ss_lines, Len(ss_lines))
    /\ ss_state = "raised" => IsErrorFrame(ss_lines[Len(ss_lines)])

\* What does hold: the Qwen and Antigravity loops.
C12_HoldsForQwenAntigravity ==
    ss_adapter \in {"qwen", "antigravity"} =>
        /\ ChunkLines = FramePositions(ss_lines, Len(ss_lines))
        /\ ss_state = "raised" => IsErrorFrame(ss_lines[Len(ss_lines)])

\* C13: in every streaming adapter, a data frame with a top-level "error" key
\* ends the stream with an error: no chunk is emitted for it or after it, and
\* the chunks of the valid frames before it are all the caller gets.
C13_ErrorFrameEndsStream ==
    \A i \in DOMAIN ss_lines :
        IsErrorFrame(ss_lines[i]) =>
            /\ ss_state = "raised"
            /\ ss_error # "none"
            /\ \A c \in DOMAIN ss_chunks : ss_chunks[c].line < i

\* What does hold: the Qwen and Antigravity loops.
C13_HoldsForQwenAntigravity ==
    ss_adapter \in {"qwen", "antigravity"} =>
        \A i \in DOMAIN ss_lines :
            IsErrorFrame(ss_lines[i]) =>
                /\ ss_state = "raised"
                /\ i = Len(ss_lines)
                /\ \A c \in DOMAIN ss_chunks : ss_chunks[c].line < i

\* the chunks emitted for line i
ChunksOfLine(i) == {c \in DOMAIN ss_chunks : ss_chunks[c].line = i}

\* The fragment of line i was emitted as it came: one ToolCall with the
\* fragment's index and the fragment's arguments text.
FragmentEmitted(i) ==
    \E c \in ChunksOfLine(i) :
        /\ Len(ss_chunks[c].tool_calls) = 1
        /\ ss_chunks[c].tool_calls[1].index = ss_lines[i].fragment.index
        /\ ss_chunks[c].tool_calls[1].function.arguments = ss_lines[i].fragment.arguments

\* C14: in the HuggingFace and Qwen streams, every tool-call delta fragment,
\* continuation fragments without name and id included, is emitted as a
\* ToolCall with the fragment's index and arguments text, and the stream is
\* not aborted.
C14_EveryFragmentEmitted ==
    ss_adapter \in {"huggingface", "qwen"} =>
        \A i \in DOMAIN ss_lines :
            ss_lines[i].fragment # NoFragment => FragmentEmitted(i)

\* What does hold: the Qwen loop, and the first fragments in HuggingFace's.
C14_HoldsForQwenAndFirstFragments ==
    \A i \in DOMAIN ss_lines :
        (/\ ss_lines[i].fragment # NoFragment
         /\ ss_adapter \in {"huggingface", "qwen"}
         /\ (ss_adapter = "qwen" \/ ss_lines[i].fragment = FirstFragment))
            => FragmentEmitted(i)

\* a standalone JSON error envelope
IsEnvelope(line) == line.field = "json"

\* C32: in the Qwen and Antigravity streams, a line that is not a field:value
\* line but a standalone JSON error envelope {"error": {"message": m}} ends
\* the stream with an error; it is not silently ignored.
C32_EnvelopeAbortsStream ==
    ss_adapter \in {"qwen", "antigravity"} =>
        \A i \in DOMAIN ss_lines :
            IsEnvelope(ss_lines[i]) => (ss_state = "raised" /\ ss_error # "none")

\* What does hold: the envelope is skipped, it yields no chunk and raises
\* nothing, and the lines after it are read.
C32_EnvelopeSkipped ==
    \A i \in DOMAIN ss_lines :
        IsEnvelope(ss_lines[i]) =>
            /\ ChunksOfLine(i) = {}
            /\ ss_state = "raised" => i < Len(ss_lines)

\* the terminator `data: [DONE]`
IsDoneLine(line) == line.field = "data" /\ line.payload = "done"

\* C31: `data: [DONE]` terminates the stream: no chunk is emitted for it, and
\* none for any data frame that arrives after it in the same response.
C31_DoneTerminatesStream ==
    \A i \in DOMAIN ss_lines :
        IsDoneLine(ss_lines[i]) => \A c \in DOMAIN ss_chunks : ss_chunks[c].line < i

\* What does hold: the terminator itself yields no chunk.
C31_DoneYieldsNoChunk ==
    \A i \in DOMAIN ss_lines : IsDoneLine(ss_lines[i]) => ChunksOfLine(i) = {}

(***************************************************************************)
(* PART 9 - the translations between the canonical model and a provider's  *)
(* form: the backend registry lookup, the tool choice, the messages of an  *)
(* Antigravity request, the tool calls of an OpenAI-family message there   *)
(* and back, count_tokens, the function declarations of an Antigravity     *)
(* request, the message of a Qwen response and the usage of a chunk.       *)
(***************************************************************************)
MaxToolCalls == 2

\* ---- the backend registry
\* revibe.core.config.Backend: the declared backend tags
BackendTags ==
    {"openai", "generic", "mistral", "groq", "huggingface", "ollama", "llamacpp",
     "cerebras", "qwen", "antigravity"}
\* factory.BACKEND_FACTORY
BACKEND_FACTORY ==
    [tag \in {"mistral", "generic", "openai", "huggingface", "groq"} |->
        CASE tag = "mistral" -> "MistralBackend"
          [] tag = "generic" -> "GenericBackend"
          [] tag = "openai" -> "OpenAIBackend"
          [] tag = "huggingface" -> "HuggingFaceBackend"
          [] tag = "groq" -> "GroqBackend"]
\* BACKEND_FACTORY.get(provider.backend)
registry_get(tag) == IF tag \in DOMAIN BACKEND_FACTORY THEN BACKEND_FACTORY[tag] ELSE None

\* ---- the tool choice
\* StrToolChoice | AvailableTool
StrToolChoice(s) == [kind |-> "str", value |-> s]
AvailableTool(name) == [kind |-> "tool", value |-> name]
ToolChoices ==
    {StrToolChoice(s) : s \in {"auto", "none", "any", "required"}} \cup {AvailableTool("T")}
\* the fields of AvailableTool.function
AvailableFunctionFields == {"name", "description", "parameters"}

\* the provider forms: a string, {type: function, function: {<keys>}} and
\* {functionCallingConfig: {mode, allowedFunctionNames?}}
ChoiceString(s) == [form |-> "string", value |-> s, names |-> <<>>, keys |-> {}]
ChoiceObject(name, keys) == [form |-> "object", value |-> name, names |-> <<>>, keys |-> keys]
FunctionCallingConfig(mode, names) ==
    [form |-> "config", value |-> mode, names |-> names, keys |-> {}]

\* AntigravityBackend._prepare_tool_config: mode_map.get(tool_choice, "AUTO")
mode_map(s) ==
    CASE s = "auto" -> "AUTO"
      [] s = "none" -> "NONE"
      [] s = "any" -> "ANY"
      [] s = "required" -> "REQUIRED"
      [] OTHER -> "AUTO"
Antigravity_prepare_tool_config(tool_choice) ==
    IF tool_choice.kind = "str"
    THEN FunctionCallingConfig(mode_map(tool_choice.value), <<>>)
    ELSE FunctionCallingConfig("ANY", <<tool_choice.value>>)

\* OpenAIMapper.prepare_tool_choice
OpenAIMapper_prepare_tool_choice(tool_choice) ==
    IF tool_choice.kind = "str"
    THEN ChoiceString(tool_choice.value)
    ELSE ChoiceObject(tool_choice.value, {"name"})
\* HuggingFaceMapper.prepare_tool_choice
HuggingFaceMapper_prepare_tool_choice(tool_choice) ==
    IF tool_choice.kind = "str"
    THEN ChoiceString(tool_choice.value)
    ELSE ChoiceObject(tool_choice.value, {"name"})
\* QwenBackend._prepare_tool_choice: tool_choice.model_dump() for a tool
Qwen_prepare_tool_choice(tool_choice) ==
    IF tool_choice.kind = "str"
    THEN ChoiceString(tool_choice.value)
    ELSE ChoiceObject(tool_choice.value, AvailableFunctionFields)

prepare_tool_choice(adapter, tool_choice) ==
    CASE adapter = "antigravity" -> Antigravity_prepare_tool_config(tool_choice)
      [] adapter = "openai" -> OpenAIMapper_prepare_tool_choice(tool_choice)
      [] adapter = "huggingface" -> HuggingFaceMapper_prepare_tool_choice(tool_choice)
      [] adapter = "qwen" -> Qwen_prepare_tool_choice(tool_choice)

\* ---- the messages
\* truthiness of a str | None
strtruthy(s) == s \notin {None, ""}
\* LLMMessage
LLMMessage(role, content, tool_calls, tool_call_id) ==
    [role |-> role, content |-> content, tool_calls |-> tool_calls,
     tool_call_id |-> tool_call_id]
\* the tool calls a message may carry
ModelToolCalls ==
    {ToolCall("c1", index, FunctionCall("f", arguments)) :
        index \in {0, 1}, arguments \in {StringValue("{}"), NoneValue}}
ToolCallLists ==
    UNION {[1..n -> ModelToolCalls] : n \in 0..MaxToolCalls}
\* the valid messages: tool_calls on assistant messages only, tool_call_id on
\* every tool message
Messages ==
    {LLMMessage(role, content, <<>>, None) :
        role \in {"system", "user", "assistant"}, content \in {None, "text"}}
    \cup {LLMMessage("tool", content, <<>>, "c1") : content \in {None, "text"}}
    \cup {LLMMessage("assistant", content, tool_calls, None) :
            content \in {None, "text"}, tool_calls \in ToolCallLists \ {<<>>}}

\* a part of an Antigravity content entry
RequestTextPart(text) == [kind |-> "text", name |-> None, value |-> text]
FunctionResponsePart(name, value) ==
    [kind |-> "functionResponse", name |-> name, value |-> value]
\* "response": {"result": args or ""}, args serialised when it is not a string
FunctionResponseResult(arguments) ==
    IF arguments.type = "null" THEN ""
    ELSE IF arguments.type = "string" THEN arguments.text
    ELSE "<json>"

\* AntigravityBackend._prepare_messages, for one message
Antigravity_prepare_message(msg) ==
    [role |-> IF msg.role = "assistant" THEN "model" ELSE "user",
     parts |->
        (IF strtruthy(msg.content) THEN <<RequestTextPart(msg.content)>> ELSE <<>>)
        \o [i \in DOMAIN msg.tool_calls |->
                FunctionResponsePart(msg.tool_calls[i].function.name,
                    FunctionResponseResult(msg.tool_calls[i].function.arguments))]]

\* OpenAIMapper.prepare_message, the "tool_calls" of the provider message
OpenAIMapper_prepare_tool_calls(msg) ==
    [i \in DOMAIN msg.tool_calls |->
        Fragment(msg.tool_calls[i].id, -1,
                 IF strtruthy(msg.tool_calls[i].function.name)
                 THEN msg.tool_calls[i].function.name ELSE "",
                 IF truthy(msg.tool_calls[i].function.arguments)
                 THEN msg.tool_calls[i].function.arguments ELSE StringValue(""))]
\* HuggingFaceMapper.prepare_message, the "tool_calls" of the provider message
HuggingFaceMapper_prepare_tool_calls(msg) ==
    [i \in DOMAIN msg.tool_calls |->
        Fragment(msg.tool_calls[i].id, -1,
                 IF strtruthy(msg.tool_calls[i].function.name)
                 THEN msg.tool_calls[i].function.name ELSE "",
                 IF truthy(msg.tool_calls[i].function.arguments)
                 THEN msg.tool_calls[i].function.arguments ELSE StringValue(""))]

\* prepare_message followed by parse_tool_calls on the provider form
RoundTripToolCalls(adapter, msg) ==
    IF adapter = "openai"
    THEN LET sent == OpenAIMapper_prepare_tool_calls(msg)
         IN  [i \in DOMAIN sent |-> OpenAIMapper_parse_tool_call(sent[i]).tool_call]
    ELSE LET sent == HuggingFaceMapper_prepare_tool_calls(msg)
         IN  [i \in DOMAIN sent |-> HuggingFaceMapper_parse_tool_call(sent[i]).tool_call]

\* ---- count_tokens
\* the "usage" object of a completion response: absent, or with prompt_tokens
UpstreamUsages ==
    {[present |-> FALSE, prompt_tokens |-> 0]}
    \cup {[present |-> TRUE, prompt_tokens |-> n] : n \in {0, 12}}
\* complete(): usage=LLMUsage(prompt_tokens=usage_data.get("prompt_tokens", 0), ...)
LLMUsage(usage) ==
    [is_none |-> FALSE,
     prompt_tokens |-> IF usage.present THEN usage.prompt_tokens ELSE 0]
\* count_tokens: complete(max_tokens=1), then result.usage
count_tokens(usage) ==
    LET completion == [usage |-> LLMUsage(usage)]
    IN  IF completion.usage.is_none
        THEN [raised |-> TRUE, value |-> 0, max_tokens |-> 1]
        ELSE [raised |-> FALSE, value |-> completion.usage.prompt_tokens, max_tokens |-> 1]

\* ---- the operations
\* BACKEND_FACTORY.get(provider.backend) in ModelSelector._fetch_dynamic_models
LookupBackend ==
    /\ rq_op = "lookup"
    /\ rq_pc = "input"
    /\ rq_out' = registry_get(rq_in)
    /\ rq_pc' = "done"
    /\ UNCHANGED <<rq_op, rq_adapter, rq_in>>
    /\ RequestFrame

\* payload["tool_choice"] / toolConfig of a request
PrepareToolChoice ==
    /\ rq_op = "tool_choice"
    /\ rq_pc = "input"
    /\ rq_out' = prepare_tool_choice(rq_adapter, rq_in)
    /\ rq_pc' = "done"
    /\ UNCHANGED <<rq_op, rq_adapter, rq_in>>
    /\ RequestFrame

\* the contents entry of a message in an Antigravity request
PrepareMessage ==
    /\ rq_op = "messages"
    /\ rq_pc = "input"
    /\ rq_out' = Antigravity_prepare_message(rq_in)
    /\ rq_pc' = "done"
    /\ UNCHANGED <<rq_op, rq_adapter, rq_in>>
    /\ RequestFrame

\* a message's tool calls sent in provider form and parsed back
RoundTrip ==
    /\ rq_op = "round_trip"
    /\ rq_pc = "input"
    /\ rq_out' = RoundTripToolCalls(rq_adapter, rq_in)
    /\ rq_pc' = "done"
    /\ UNCHANGED <<rq_op, rq_adapter, rq_in>>
    /\ RequestFrame

\* QwenBackend.count_tokens / HuggingFaceBackend.count_tokens
CountTokens ==
    /\ rq_op = "count_tokens"
    /\ rq_pc = "input"
    /\ rq_out' = count_tokens(rq_in)
    /\ rq_pc' = "done"
    /\ UNCHANGED <<rq_op, rq_adapter, rq_in>>
    /\ RequestFrame

\* ---- the function declarations of an Antigravity request
MaxProperties == 2
PropertyNames == {"path", "tags"}
\* a property's JSON schema: a dict with some of the keys type, description
\* and items (a nested schema)
SchemaKeys == {"type", "description", "items"}
SchemaValues(k) ==
    CASE k = "type" -> {"string", "array"}
      [] k = "description" -> {"", "a path"}
      [] k = "items" -> {"{type: string, enum: [a, b]}"}
PropertySchemas ==
    UNION {{f \in [K -> UNION {SchemaValues(k) : k \in SchemaKeys}] :
                \A k \in K : f[k] \in SchemaValues(k)} : K \in SUBSET SchemaKeys}
\* params["properties"]: the (name, schema) items of the dict, in its order
PropertyItems ==
    {items \in UNION {[1..n -> [name : PropertyNames, schema : PropertySchemas]] :
                        n \in 0..MaxProperties} :
        \A i, j \in DOMAIN items : items[i].name = items[j].name => i = j}
\* func.parameters: None, or a schema with properties and required
NoParameters == [present |-> FALSE, properties |-> <<>>, required |-> <<>>]
FunctionParameters ==
    {NoParameters} \cup
    {[present |-> TRUE, properties |-> items, required |-> required] :
        items \in PropertyItems, required \in {<<>>, <<"path">>, <<"tags", "path">>}}

\* dict.get(key, default)
dictget(d, key, default) == IF key \in DOMAIN d THEN d[key] ELSE default
\* the body of `for name, prop in props.items()`: properties[name]
compile_property(prop) ==
    LET prop_type == dictget(prop, "type", "string")
        prop_desc == dictget(prop, "description", None)
    IN  IF strtruthy(prop_desc)
        THEN [type |-> prop_type, description |-> prop_desc]
        ELSE [type |-> prop_type]
\* AntigravityBackend._prepare_tools: func_def["parameters"] of one tool
\* (present: the key is set)
Antigravity_prepare_parameters(parameters) ==
    IF ~parameters.present
    THEN [present |-> FALSE, type |-> "", properties |-> <<>>, required |-> <<>>]
    ELSE LET props == parameters.properties
             InRequired(item) == \E i \in DOMAIN parameters.required :
                                    parameters.required[i] = item.name
             required_items == SelectSeq(props, InRequired)
         IN  [present |-> TRUE,
              type |-> "object",
              properties |-> [name \in {props[i].name : i \in DOMAIN props} |->
                                compile_property(
                                    props[CHOOSE i \in DOMAIN props : props[i].name = name].schema)],
              required |-> [i \in DOMAIN required_items |-> required_items[i].name]]

\* request_body["tools"] of a request
PrepareTools ==
    /\ rq_op = "tools"
    /\ rq_pc = "input"
    /\ rq_out' = Antigravity_prepare_parameters(rq_in)
    /\ rq_pc' = "done"
    /\ UNCHANGED <<rq_op, rq_adapter, rq_in>>
    /\ RequestFrame

\* ---- the message of a non-streaming Qwen response
\* a JSON value under a string-valued key: a string (a sequence of
\* characters), null, or no key at all
Str(text) == [type |-> "string", text |-> text]
NullStr == [type |-> "null", text |-> <<>>]
NoStr == [type |-> "missing", text |-> <<>>]
\* a JSON value under a list-valued key
List(items) == [type |-> "list", items |-> items]
NullList == [type |-> "null", items |-> <<>>]
NoList == [type |-> "missing", items |-> <<>>]
\* data["choices"][0]["message"]
MessageData ==
    [content : {NoStr, NullStr, Str(<<>>), Str(<<"A">>),
                Str(OPEN_TAG \o <<"B">> \o CLOSE_TAG \o <<"C">>)},
     reasoning_content : {NoStr, Str(<<"R">>)},
     tool_calls : {NoList, NullList, List(<<>>), List(<<FirstFragment>>)}]

\* QwenBackend._parse_tool_calls: None for None and for an empty list
Qwen_parse_tool_calls(tool_calls) ==
    IF tool_calls.type # "list" \/ tool_calls.items = <<>>
    THEN NullList
    ELSE List([i \in DOMAIN tool_calls.items |->
                 Qwen_parse_tool_call(tool_calls.items[i]).tool_call])

\* the LLMMessage of the chunk returned, or the exception raised
Returned(content, reasoning_content, tool_calls) ==
    [raised |-> "none", content |-> content, reasoning_content |-> reasoning_content,
     tool_calls |-> tool_calls]
Failed(error) ==
    [raised |-> error, content |-> NullStr, reasoning_content |-> NullStr,
     tool_calls |-> NullList]

\* QwenBackend._complete_with_retry from `content = message_data.get("content", "")`
\* to the return: `"<think>" in content` raises TypeError when content is None
Qwen_complete_message(message_data) ==
    LET content == IF message_data.content = NoStr THEN Str(<<>>)
                   ELSE message_data.content
        reasoning_content == IF message_data.reasoning_content = NoStr THEN NullStr
                             ELSE message_data.reasoning_content
        tool_calls == Qwen_parse_tool_calls(message_data.tool_calls)
    IN  IF content.type = "null" THEN Failed("TypeError")
        ELSE IF find(content.text, OPEN_TAG) # -1 \/ find(content.text, CLOSE_TAG) # -1
        THEN LET r == parse(NewParser, content.text) IN
             Returned(Str(r.regular),
                      IF r.reasoning # <<>>
                         /\ (reasoning_content.type = "null" \/ reasoning_content.text = <<>>)
                      THEN Str(r.reasoning) ELSE reasoning_content,
                      tool_calls)
        ELSE Returned(content, reasoning_content, tool_calls)

\* QwenBackend.complete on a 200 response with this message
ParseMessage ==
    /\ rq_op = "complete"
    /\ rq_pc = "input"
    /\ rq_out' = Qwen_complete_message(rq_in)
    /\ rq_pc' = "done"
    /\ UNCHANGED <<rq_op, rq_adapter, rq_in>>
    /\ RequestFrame

\* ---- the usage of a chunk
\* the value under a usage key: an object with its token counts, null, or no
\* key at all
UsageObject(prompt, completion) ==
    [type |-> "object", prompt |-> prompt, completion |-> completion]
NullUsage == [type |-> "null", prompt |-> 0, completion |-> 0]
NoUsage == [type |-> "missing", prompt |-> 0, completion |-> 0]
UsageValues == {NoUsage, NullUsage, UsageObject(3, 5), UsageObject(7, 0)}
\* LLMUsage(prompt_tokens=..., completion_tokens=...)
TokenUsage(prompt_tokens, completion_tokens) ==
    [prompt_tokens |-> prompt_tokens, completion_tokens |-> completion_tokens]
\* the outcome of one frame: the chunk yielded with its usage, or the
\* exception that leaves the generator
Yielded(usage) == [raised |-> "none", usage |-> usage]
Aborted(error) == [raised |-> error, usage |-> TokenUsage(0, 0)]

\* a well-formed frame of an OpenAI-format stream: "choices" is a list with a
\* delta or the empty list
StreamFrames == [choices : {"delta", "empty"}, usage : UsageValues]

\* HuggingFaceBackend.complete_streaming, the construction of the chunk:
\* chunk.get("choices", [{}])[0] and chunk.get("usage", {}).get(...)
HuggingFace_stream_frame(chunk) ==
    IF chunk.choices = "empty" THEN Aborted("IndexError")
    ELSE IF chunk.usage.type = "null" THEN Aborted("AttributeError")
    ELSE Yielded(TokenUsage(chunk.usage.prompt, chunk.usage.completion))

\* OpenAIBackend.complete_streaming, the construction of the chunk:
\* chunk.choices[0] and `chunk.usage.prompt_tokens if chunk.usage else 0`
\* (chunk.usage is None for a null and for an absent usage)
OpenAI_stream_frame(chunk) ==
    IF chunk.choices = "empty" THEN Aborted("IndexError")
    ELSE IF chunk.usage.type = "object"
    THEN Yielded(TokenUsage(chunk.usage.prompt, chunk.usage.completion))
    ELSE Yielded(TokenUsage(0, 0))

\* one frame of a streamed completion
ParseFrame ==
    /\ rq_op = "stream_frame"
    /\ rq_pc = "input"
    /\ rq_out' = IF rq_adapter = "huggingface" THEN HuggingFace_stream_frame(rq_in)
                 ELSE OpenAI_stream_frame(rq_in)
    /\ rq_pc' = "done"
    /\ UNCHANGED <<rq_op, rq_adapter, rq_in>>
    /\ RequestFrame

\* an Antigravity frame or non-streaming response: the keys of the top-level
\* object and, when it has the "response" wrapper, the keys of the wrapper
AntigravityData ==
    [streaming : BOOLEAN, wrapped : BOOLEAN,
     top : [usageMetadata : {NoUsage, UsageObject(3, 5)}],
     response : [usageMetadata : {NoUsage, UsageObject(7, 0)}]]
\* data.get("response", data): the object the candidates are read from
response_data(data) == IF data.wrapped THEN data.response ELSE data.top
\* dict.get(key, 0) of a usage object, 0 for no object
UsageOf(usage) ==
    IF usage.type = "object" THEN TokenUsage(usage.prompt, usage.completion)
    ELSE TokenUsage(0, 0)
\* _complete_with_retry: usage_data = data.get("usageMetadata", {})
Antigravity_response_usage(data) == UsageOf(data.top.usageMetadata)
\* _handle_chunk_data: `if chunk_data.get("usageMetadata")`, then
\* _create_llm_chunk
Antigravity_chunk_usage(chunk_data) == UsageOf(chunk_data.top.usageMetadata)

\* the usage of the chunk of one frame or response
ParseUsage ==
    /\ rq_op = "usage"
    /\ rq_pc = "input"
    /\ rq_out' = IF rq_in.streaming THEN Antigravity_chunk_usage(rq_in)
                 ELSE Antigravity_response_usage(rq_in)
    /\ rq_pc' = "done"
    /\ UNCHANGED <<rq_op, rq_adapter, rq_in>>
    /\ RequestFrame

RequestInit ==
    /\ rq_pc = "input"
    /\ rq_out = None
    /\ \/ /\ rq_op = "lookup"
          /\ rq_adapter \in BackendTags
          /\ rq_in = rq_adapter
       \/ /\ rq_op = "tool_choice"
          /\ rq_adapter \in Adapters
          /\ rq_in \in ToolChoices
       \/ /\ rq_op = "messages"
          /\ rq_adapter = "antigravity"
          /\ rq_in \in Messages
       \/ /\ rq_op = "round_trip"
          /\ rq_adapter \in {"openai", "huggingface"}
          /\ rq_in \in {msg \in Messages : msg.tool_calls # <<>>}
       \/ /\ rq_op = "count_tokens"
          /\ rq_adapter \in {"qwen", "huggingface"}
          /\ rq_in \in UpstreamUsages
       \/ /\ rq_op = "tools"
          /\ rq_adapter = "antigravity"
          /\ rq_in \in FunctionParameters
       \/ /\ rq_op = "complete"
          /\ rq_adapter = "qwen"
          /\ rq_in \in MessageData
       \/ /\ rq_op = "stream_frame"
          /\ rq_adapter \in {"huggingface", "openai"}
          /\ rq_in \in StreamFrames
       \/ /\ rq_op = "usage"
          /\ rq_adapter = "antigravity"
          /\ rq_in \in AntigravityData

\* No translation is being made (the other parts' specifications).
RequestIdle ==
    /\ rq_op = "idle"
    /\ rq_adapter = "qwen"
    /\ rq_in = None
    /\ rq_pc = "idle"
    /\ rq_out = None

RequestNext ==
    \/ LookupBackend
    \/ PrepareToolChoice
    \/ PrepareMessage
    \/ RoundTrip
    \/ CountTokens
    \/ PrepareTools
    \/ ParseMessage
    \/ ParseFrame
    \/ ParseUsage

Done(op) == rq_pc = "done" /\ rq_op = op

\* C15: for the OpenAI-family mappers and every assistant message with tool
\* calls, parse_tool_calls of the form produced by prepare_message yields the
\* same (id, index, function.name, function.arguments), in the same order.
C15_RoundTripPreservesToolCalls ==
    Done("round_trip") => rq_out = rq_in.tool_calls

\* What does hold: order, id and name are preserved, and the arguments that
\* are a non-empty string.
C15_RoundTripPreservesIdAndName ==
    Done("round_trip") =>
        /\ Len(rq_out) = Len(rq_in.tool_calls)
        /\ \A i \in DOMAIN rq_out :
            /\ rq_out[i].id = rq_in.tool_calls[i].id
            /\ rq_out[i].function.name = rq_in.tool_calls[i].function.name
            /\ truthy(rq_in.tool_calls[i].function.arguments) =>
                  rq_out[i].function.arguments = rq_in.tool_calls[i].function.arguments

\* the translation of the tool choice that the Antigravity table gives
ExpectedToolConfig(tool_choice) ==
    IF tool_choice.kind = "tool"
    THEN FunctionCallingConfig("ANY", <<tool_choice.value>>)
    ELSE FunctionCallingConfig(
            CASE tool_choice.value = "auto" -> "AUTO"
              [] tool_choice.value = "none" -> "NONE"
              [] tool_choice.value \in {"any", "required"} -> "REQUIRED",
            <<>>)

\* C16: Antigravity translates the tool choice as auto -> AUTO, none -> NONE,
\* any -> REQUIRED, required -> REQUIRED, a tool T -> ANY with
\* allowedFunctionNames = [T].
C16_AntigravityToolConfig ==
    (Done("tool_choice") /\ rq_adapter = "antigravity") =>
        rq_out = ExpectedToolConfig(rq_in)

\* What does hold: every choice but `any`.
C16_HoldsExceptAny ==
    (Done("tool_choice") /\ rq_adapter = "antigravity" /\ rq_in # StrToolChoice("any")) =>
        rq_out = ExpectedToolConfig(rq_in)

\* the translation of the tool choice that the OpenAI-family table gives
ExpectedToolChoice(tool_choice) ==
    IF tool_choice.kind = "tool"
    THEN ChoiceObject(tool_choice.value, {"name"})
    ELSE ChoiceString(IF tool_choice.value \in {"any", "required"} THEN "required"
                      ELSE tool_choice.value)

\* C17: the OpenAI-family adapters (OpenAI, HuggingFace, Qwen) translate the
\* tool choice as auto -> "auto", none -> "none", any -> "required",
\* required -> "required", a tool T -> {type: function, function: {name: T}}
\* and nothing else.
C17_OpenAIFamilyToolChoice ==
    (Done("tool_choice") /\ rq_adapter \in {"openai", "huggingface", "qwen"}) =>
        rq_out = ExpectedToolChoice(rq_in)

\* What does hold: auto, none and required in the three adapters, a tool in
\* the two mappers.
C17_HoldsExceptAnyAndQwenTool ==
    (/\ Done("tool_choice")
     /\ rq_adapter \in {"openai", "huggingface", "qwen"}
     /\ rq_in # StrToolChoice("any")
     /\ ~(rq_adapter = "qwen" /\ rq_in.kind = "tool")) =>
        rq_out = ExpectedToolChoice(rq_in)

FunctionResponses(entry) ==
    {i \in DOMAIN entry.parts : entry.parts[i].kind = "functionResponse"}

\* C18: in the contents of an Antigravity request, every message of role tool
\* becomes an entry with a functionResponse part whose response.result is the
\* message's tool output, and no message of another role produces a
\* functionResponse part.
C18_ToolMessagesBecomeFunctionResponses ==
    Done("messages") =>
        /\ rq_in.role = "tool" =>
              \E i \in FunctionResponses(rq_out) : rq_out.parts[i].value = rq_in.content
        /\ rq_in.role # "tool" => FunctionResponses(rq_out) = {}

\* What the code does: the functionResponse parts are the message's tool calls.
C18_FunctionResponsesAreToolCalls ==
    Done("messages") => Cardinality(FunctionResponses(rq_out)) = Len(rq_in.tool_calls)

\* C19: for every declared backend tag, the registry lookup resolves to an
\* adapter constructor; no declared tag is missing from the registry.
C19_EveryTagRegistered ==
    Done("lookup") => rq_out # None

\* C20: count_tokens issues a completion with max_tokens=1 and returns its
\* usage.prompt_tokens; when the response carries no usage, it fails with an
\* error instead of returning a number.
C20_CountTokensNeedsUsage ==
    Done("count_tokens") =>
        /\ rq_out.max_tokens = 1
        /\ rq_in.present => (~rq_out.raised /\ rq_out.value = rq_in.prompt_tokens)
        /\ ~rq_in.present => rq_out.raised

\* What does hold: the reported prompt_tokens are returned.
C20_ReturnsReportedPromptTokens ==
    (Done("count_tokens") /\ rq_in.present) =>
        (~rq_out.raised /\ rq_out.value = rq_in.prompt_tokens /\ rq_out.max_tokens = 1)

\* C28: in the function declaration compiled from a tool's parameters,
\* properties[name] equals the input schema of that property, nested keys
\* (items, enum, nested properties) included, for every property name.
C28_PropertySchemasVerbatim ==
    (Done("tools") /\ rq_in.present) =>
        \A i \in DOMAIN rq_in.properties :
            rq_out.properties[rq_in.properties[i].name] = rq_in.properties[i].schema

\* What does hold: properties[name] has the schema's type ("string" when it
\* has none), its description when that is not empty, and no other key.
C28_TypeAndDescriptionOnly ==
    (Done("tools") /\ rq_in.present) =>
        \A i \in DOMAIN rq_in.properties :
            LET schema == rq_in.properties[i].schema
                decl == rq_out.properties[rq_in.properties[i].name]
            IN  /\ decl.type = dictget(schema, "type", "string")
                /\ DOMAIN decl =
                      {"type"} \cup (IF strtruthy(dictget(schema, "description", None))
                                     THEN {"description"} ELSE {})
                /\ "description" \in DOMAIN decl => decl.description = schema.description

\* the reply carries tool calls and no content: content null or absent
ToolCallOnlyReply(message_data) ==
    /\ message_data.content.type \in {"null", "missing"}
    /\ message_data.tool_calls.type = "list"
    /\ message_data.tool_calls.items # <<>>

\* C37: QwenBackend.complete returns a chunk, and does not fail, for a 200
\* response whose message content is null or absent while tool_calls are
\* present; the chunk carries the parsed tool calls.
C37_ToolCallOnlyReplyReturned ==
    (Done("complete") /\ ToolCallOnlyReply(rq_in)) =>
        /\ rq_out.raised = "none"
        /\ rq_out.tool_calls = Qwen_parse_tool_calls(rq_in.tool_calls)

\* What does hold: the call fails exactly when the content is null; an absent
\* content gives a chunk with the content "" and the parsed tool calls.
C37_ReturnedUnlessContentNull ==
    Done("complete") =>
        /\ rq_out.raised = (IF rq_in.content.type = "null" THEN "TypeError" ELSE "none")
        /\ (ToolCallOnlyReply(rq_in) /\ rq_in.content.type = "missing") =>
              /\ rq_out.content = Str(<<>>)
              /\ rq_out.tool_calls = Qwen_parse_tool_calls(rq_in.tool_calls)
              /\ rq_out.tool_calls.items # <<>>

\* C38: in the HuggingFace and OpenAI streaming paths a well-formed frame
\* with an empty choices list or with a null usage yields a chunk, with the
\* usage when present and zero otherwise, and does not end the stream with an
\* exception.
C38_UsageOnlyFrameYieldsChunk ==
    (Done("stream_frame") /\ (rq_in.choices = "empty" \/ rq_in.usage.type = "null")) =>
        /\ rq_out.raised = "none"
        /\ rq_out.usage = UsageOf(rq_in.usage)

\* What does hold: a frame with a delta yields a chunk with the frame's usage,
\* zero without one, except in HuggingFace when the usage is null; a frame
\* with an empty choices list ends the stream in both adapters.
C38_ChunkUnlessEmptyChoicesOrNullUsage ==
    Done("stream_frame") =>
        IF rq_in.choices = "empty" THEN rq_out.raised = "IndexError"
        ELSE IF rq_adapter = "huggingface" /\ rq_in.usage.type = "null"
        THEN rq_out.raised = "AttributeError"
        ELSE rq_out = Yielded(UsageOf(rq_in.usage))

\* C40: for an Antigravity frame or non-streaming response wrapped under the
\* top-level `response` key, usage metadata inside the wrapper populates the
\* chunk's usage: the usage is read from the object the candidates are read
\* from.
C40_UsageReadNextToCandidates ==
    (Done("usage") /\ rq_in.wrapped /\ rq_in.response.usageMetadata.type = "object") =>
        rq_out = UsageOf(response_data(rq_in).usageMetadata)

\* What does hold: the usage is that of the top-level usageMetadata, zero
\* without one, whether or not the object has the wrapper.
C40_UsageReadFromTopLevel ==
    Done("usage") => rq_out = UsageOf(rq_in.top.usageMetadata)

(***************************************************************************)
(* PART 10 - OllamaBackend.list_models (ollama.py): the native /api/tags   *)
(* listing, then the listing inherited from OpenAIBackend.                 *)
(***************************************************************************)
MaxModels == 2

\* provider.api_base as tokens: the host, "/v1" and a trailing "/"
ApiBases == {<<"http://host">>, <<"http://host", "/">>, <<"http://host", "/v1">>,
             <<"http://host", "/v1", "/">>}
\* str.replace("/v1", "")
RECURSIVE replace_v1(_)
replace_v1(url) ==
    IF url = <<>> THEN <<>>
    ELSE IF Head(url) = "/v1" THEN replace_v1(Tail(url))
    ELSE <<Head(url)>> \o replace_v1(Tail(url))
\* str.rstrip("/")
RECURSIVE rstrip_slash(_)
rstrip_slash(url) ==
    IF url # <<>> /\ url[Len(url)] = "/" THEN rstrip_slash(SubSeq(url, 1, Len(url) - 1))
    ELSE url
\* f"{base_url}/api/tags"
tags_url(api_base) == rstrip_slash(replace_v1(api_base)) \o <<"/api/tags">>
\* the URL of the OpenAI-compatible listing
v1_models_url(api_base) == rstrip_slash(replace_v1(api_base)) \o <<"/v1", "/models">>

\* the entries of "models": with a name, or without the "name" key
ModelEntries == {[name |-> "llama3:8b"], [name |-> "qwen2:7b"], [size |-> 1]}
ModelLists == UNION {[1..n -> ModelEntries] : n \in 0..MaxModels}
\* what the request to /api/tags may give: an exception of client.get, a
\* non-200 answer, or a 200 answer with a body
TagsResponses ==
    {[kind |-> "exception"]}
    \cup {[kind |-> "response", status |-> s, json |-> FALSE, has_models |-> FALSE,
           models |-> <<>>] : s \in {200, 404, 500}}
    \cup {[kind |-> "response", status |-> 200, json |-> TRUE, has_models |-> FALSE,
           models |-> <<>>]}
    \cup {[kind |-> "response", status |-> 200, json |-> TRUE, has_models |-> TRUE,
           models |-> l] : l \in ModelLists}

\* response.status_code == 200
TagsOk_never(response) == FALSE
TagsOk(response) == response.status = 200
\* [m["name"] for m in data.get("models", [])]
ModelNames(models) == [i \in DOMAIN models |-> models[i].name]
\* the try block of list_models: the list it returns, or no return when the
\* block is left by a status other than 200 or by an exception caught
NoReturn == [returned |-> FALSE, names |-> <<>>]
Return(names) == [returned |-> TRUE, names |-> names]
native_listing(response) ==
    IF response.kind = "exception" THEN NoReturn
    ELSE IF ~TagsOk(response) THEN NoReturn
    ELSE IF ~response.json THEN NoReturn
    ELSE LET models == IF response.has_models THEN response.models ELSE <<>>
         IN  IF \E i \in DOMAIN models : "name" \notin DOMAIN models[i]
             THEN NoReturn
             ELSE Return(ModelNames(models))

\* the attributes class OpenAIBackend defines
OpenAIBackend_attrs ==
    {"__init__", "__aenter__", "__aexit__", "_get_client", "complete",
     "complete_streaming", "count_tokens"}

\* list_models up to the end of its try block
NativeListing ==
    /\ ol_pc = "start"
    /\ \E response \in TagsResponses :
         /\ ol_tags' = response
         /\ ol_calls' = Append(ol_calls, tags_url(ol_base))
         /\ IF native_listing(response).returned
            THEN ol_pc' = "returned" /\ ol_result' = native_listing(response).names
            ELSE ol_pc' = "fallback" /\ UNCHANGED ol_result
    /\ UNCHANGED ol_base
    /\ OllamaFrame

\* return await super().list_models()
SuperListModels ==
    /\ ol_pc = "fallback"
    /\ "list_models" \notin OpenAIBackend_attrs
    /\ ol_pc' = "raised"
    /\ ol_result' = <<"AttributeError">>
    /\ UNCHANGED <<ol_base, ol_calls, ol_tags>>
    /\ OllamaFrame

OllamaInit ==
    /\ ol_base \in ApiBases
    /\ ol_pc = "start"
    /\ ol_calls = <<>>
    /\ ol_tags = [kind |-> "none"]
    /\ ol_result = <<>>

\* No listing is being made (the other parts' specifications).
OllamaIdle ==
    /\ ol_base = <<"http://host">>
    /\ ol_pc = "idle"
    /\ ol_calls = <<>>
    /\ ol_tags = [kind |-> "none"]
    /\ ol_result = <<>>

OllamaNext ==
    \/ NativeListing
    \/ SuperListModels

\* the call has ended: it returned or raised
ListingEnded == ol_pc \in {"returned", "raised"}
\* /api/tags answered 200 with {models: [{name}, ...]}
TagsAnsweredWithNames ==
    /\ ol_tags.kind = "response"
    /\ ol_tags.status = 200 /\ ol_tags.json /\ ol_tags.has_models
    /\ \A i \in DOMAIN ol_tags.models : "name" \in DOMAIN ol_tags.models[i]
\* the request to /api/tags failed: an exception or a non-200 status
TagsFailed ==
    \/ ol_tags.kind = "exception"
    \/ ol_tags.kind = "response" /\ ol_tags.status # 200

\* C21: when /api/tags answers 200 with {models: [{name}, ...]}, list_models
\* returns exactly those names in order and never requests /v1/models.
C21_NativeNamesReturned ==
    (ol_pc # "start" /\ TagsAnsweredWithNames) =>
        /\ ol_pc = "returned"
        /\ Len(ol_result) = Len(ol_tags.models)
        /\ \A i \in DOMAIN ol_result : ol_result[i] = ol_tags.models[i].name
        /\ ol_calls = <<tags_url(ol_base)>>

C21_Witness ==
    /\ ol_pc = "returned"
    /\ TagsAnsweredWithNames
    /\ ol_result = <<"llama3:8b", "qwen2:7b">>

\* C22: when the request to /api/tags fails (non-200 status or exception),
\* list_models requests the /v1/models listing and returns a list (that
\* listing's result, or an empty list); it never raises to the caller.
C22_FallsBackWithoutRaising ==
    (ListingEnded /\ TagsFailed) =>
        /\ ol_pc = "returned"
        /\ \E i \in DOMAIN ol_calls : ol_calls[i] = v1_models_url(ol_base)

\* What does hold: a failed native listing always ends in the fallback's
\* exception, with no second request.
C22_FallbackRaisesAttributeError ==
    (ListingEnded /\ TagsFailed) =>
        /\ ol_pc = "raised"
        /\ ol_result = <<"AttributeError">>
        /\ ol_calls = <<tags_url(ol_base)>>

(***************************************************************************)
(* PART 11 - AntigravityBackend: the project identifier of a request       *)
(* (_ensure_project_id, _build_request_payload) over the requests of one   *)
(* adapter object, whose stored credentials the OAuth manager may change.  *)
(***************************************************************************)
MaxSends == 3

\* antigravity.types.DEFAULT_PROJECT_ID
DEFAULT_PROJECT_ID == "default-project"
\* what AntigravityOAuthManager.get_project_id() may return
CredentialProjects == {None, "", "project-a", "project-b"}
\* the access tokens ensure_authenticated may return
AccessTokens == {"token-1", "token-2"}

\* _ensure_project_id: the value returned (and stored in self._project_id)
ensure_project_id(memo, cached_project, access_token) ==
    IF strtruthy(memo) THEN memo
    ELSE IF strtruthy(cached_project) THEN cached_project
    ELSE DEFAULT_PROJECT_ID
\* _build_request_payload: payload["project"], Absent when the key is not set
payload_project(project_id) == IF strtruthy(project_id) THEN project_id ELSE Absent

\* _complete_with_retry up to the request: the token of the headers, the
\* project id, the payload
SendWithProject ==
    /\ Len(pj_sent) < MaxSends
    /\ \E access_token \in AccessTokens :
         LET project_id == ensure_project_id(pj_memo, pj_cred, access_token)
         IN  /\ pj_memo' = project_id
             /\ pj_sent' = Append(pj_sent, [token |-> access_token, cred |-> pj_cred,
                                            project |-> payload_project(project_id)])
    /\ UNCHANGED pj_cred
    /\ ProjectFrame

\* The OAuth manager changes the stored credentials: the onboarding probe
\* caches a project, or the user signs in again.
CredentialsMutated ==
    /\ \E p \in CredentialProjects \ {pj_cred} : pj_cred' = p
    /\ UNCHANGED <<pj_memo, pj_sent>>
    /\ ProjectFrame

ProjectInit ==
    /\ pj_cred \in CredentialProjects
    /\ pj_memo = None
    /\ pj_sent = <<>>

\* No Antigravity request is being built (the other parts' specifications).
ProjectIdle ==
    /\ pj_cred = None
    /\ pj_memo = "idle"
    /\ pj_sent = <<>>

ProjectNext ==
    \/ SendWithProject
    \/ CredentialsMutated

\* the project a request must carry for the credentials it was built with
ExpectedProject(cred) == IF strtruthy(cred) THEN cred ELSE DEFAULT_PROJECT_ID

\* C24: the project of every request is the one cached in the credentials
\* when there is one and the configured default otherwise, and two requests
\* that differ only in the access token carry the same project.
C24_ProjectFromCredentials ==
    /\ \A i \in DOMAIN pj_sent : pj_sent[i].project = ExpectedProject(pj_sent[i].cred)
    /\ \A i, j \in DOMAIN pj_sent :
         pj_sent[i].cred = pj_sent[j].cred => pj_sent[i].project = pj_sent[j].project

\* What does hold: the first request of the adapter carries the expected
\* project, every later one carries the same project as the first, and so no
\* request's project depends on its access token.
C24_FirstProjectKept ==
    /\ pj_sent # <<>> => pj_sent[1].project = ExpectedProject(pj_sent[1].cred)
    /\ \A i \in DOMAIN pj_sent : pj_sent[i].project = pj_sent[1].project

\* C39: whenever the OAuth manager holds a cached project id at the time of a
\* request, the request carries that project id: a default chosen by an
\* earlier request, or a project cached from earlier credentials, is not kept.
C39_CachedProjectCarried ==
    \A i \in DOMAIN pj_sent :
        strtruthy(pj_sent[i].cred) => pj_sent[i].project = pj_sent[i].cred

\* What does hold: a request built while self._project_id is not yet set
\* carries the project cached at that time.
C39_CachedProjectCarriedWhenNotMemoised ==
    [][(Len(pj_sent') = Len(pj_sent) + 1 /\ ~strtruthy(pj_memo) /\ strtruthy(pj_cred))
        => pj_sent'[Len(pj_sent')].project = pj_cred]_vars

(***************************************************************************)
(* PART 12 - QwenBackend._complete_streaming_with_retry: cumulative or     *)
(* incremental content. A frame's content is the text so far or the text   *)
(* added; the loop keeps full_content to tell the text new in each frame.  *)
(***************************************************************************)
MaxDeltaFrames == 3
MaxContentLen == 2

\* delta.get("content"): the empty string stands for an absent or empty content
Contents == UNION {[1..n -> {"a", "b"}] : n \in 0..MaxContentLen}

\* str.startswith
startswith(s, prefix) == Len(prefix) <= Len(s) /\ SubSeq(s, 1, Len(prefix)) = prefix

\* "Handle cumulative content": new_text for a frame's non-empty content
new_text_of(content, full_content) ==
    IF startswith(content, full_content)
    THEN SliceFrom(content, Len(full_content))
    ELSE content

\* One data frame of the stream, from `if delta.get("content")` to the call of
\* thinking_parser.parse.
ReadContentFrame ==
    /\ qd_read < MaxDeltaFrames
    /\ \E content \in Contents :
         /\ qd_content' = content
         /\ IF content # <<>>
            THEN /\ qd_handed' = new_text_of(content, qd_full)
                 /\ qd_full' = content
                 /\ qd_acc' = qd_acc \o new_text_of(content, qd_full)
            ELSE /\ qd_handed' = <<>>
                 /\ UNCHANGED <<qd_full, qd_acc>>
    /\ qd_read' = qd_read + 1
    /\ DeltaFrame

DeltaInit ==
    /\ qd_full = <<>>
    /\ qd_read = 0
    /\ qd_content = <<>>
    /\ qd_handed = <<>>
    /\ qd_acc = <<>>

\* No Qwen stream is being read (the other parts' specifications).
DeltaIdle ==
    /\ qd_full = <<>>
    /\ qd_read = -1
    /\ qd_content = <<>>
    /\ qd_handed = <<>>
    /\ qd_acc = <<>>

DeltaNext == ReadContentFrame

\* a frame with content is read
ContentFrameStep == qd_read' = qd_read + 1 /\ qd_content' # <<>>

\* C29: for each frame with content c, A being all the content delivered by
\* the earlier frames of the stream: the text handed to the thinking parser is
\* the suffix of c after A when c starts with A, and the whole of c otherwise.
C29_DeltaAgainstAccumulated ==
    [][ContentFrameStep =>
        qd_handed' = IF startswith(qd_content', qd_acc)
                     THEN SliceFrom(qd_content', Len(qd_acc))
                     ELSE qd_content']_vars

\* What does hold: the same with the content of the previous frame that had
\* one in place of the accumulated content.
C29_DeltaAgainstPreviousFrame ==
    [][ContentFrameStep =>
        qd_handed' = IF startswith(qd_content', qd_full)
                     THEN SliceFrom(qd_content', Len(qd_full))
                     ELSE qd_content']_vars

\* a frame is read
FrameStep == qd_read' = qd_read + 1

\* C36: for a stream of incremental content deltas without think tags, the
\* concatenation of the content of the chunks equals the concatenation of the
\* content of the frames, after every frame: each delta is passed on whole,
\* consecutive equal deltas and a delta that starts with the previous one
\* included.
C36_IncrementalContentKept ==
    [][FrameStep => qd_acc' = qd_acc \o qd_content']_vars

\* What does hold: a delta is passed on whole when it does not start with the
\* content of the previous frame that had one.
C36_KeptUnlessPreviousIsPrefix ==
    [][(FrameStep /\ (qd_full = <<>> \/ ~startswith(qd_content', qd_full)))
        => qd_acc' = qd_acc \o qd_content']_vars

(***************************************************************************)
(* PART 13 - _complete_streaming_with_retry of QwenBackend and             *)
(* AntigravityBackend as a generator: the try block around the request and *)
(* the loop over its lines, and the except clauses that retry or raise.    *)
(***************************************************************************)
MaxRetryChunks == 3

\* The exceptions the try block can raise: raise_for_status on a non-2xx
\* status, a transport failure of the request or of a read of the stream, and
\* the ValueError of an error frame (status: the code the frame reports).
StatusError(status) == [type |-> "HTTPStatusError", status |-> status]
RequestError == [type |-> "RequestError", status |-> 0]
FrameError(code) == [type |-> "ValueError", status |-> code]

\* Mutant: the retry clause catches every exception.
IsStatusError_any(exc) == TRUE
\* except httpx.HTTPStatusError as e
IsStatusError(exc) == exc.type = "HTTPStatusError"

\* the retry condition of the clause, on e.response.status_code
stream_retryable(status) ==
    IF rs_adapter = "qwen"
    THEN status = HTTP_UNAUTHORIZED /\ rs_oauth /\ rs_retry_count = 0
    ELSE status \in RETRYABLE_STATUS_CODES /\ rs_retry_count = 0

\* The except clauses for an exception raised in the try block: the call is
\* made again with _retry_count=1 and its chunks are passed on, or an error
\* is raised to the caller.
Except(exc) ==
    IF IsStatusError(exc)
    THEN IF stream_retryable(exc.status)
         THEN /\ rs_retry_count' = 1
              /\ rs_pc' = "request"
              /\ UNCHANGED rs_outcome
         ELSE /\ rs_pc' = "done"
              /\ rs_outcome' = build_http_error(exc.status)
              /\ UNCHANGED rs_retry_count
    ELSE /\ rs_pc' = "done"
         /\ rs_outcome' = IF exc.type = "RequestError" THEN build_request_error
                          ELSE exc.type
         /\ UNCHANGED rs_retry_count

RsRequests == {i \in DOMAIN rs_log : rs_log[i].ev = "request"}
RsChunks == {i \in DOMAIN rs_log : rs_log[i].ev = "chunk"}

\* client.stream(...) and response.raise_for_status()
OpenResponse ==
    /\ rs_pc = "request"
    /\ \E status \in {0, 200, 401, 403, 500} :
         /\ rs_log' = Append(rs_log, [ev |-> "request", req |-> Cardinality(RsRequests) + 1,
                                      status |-> status])
         /\ IF status = 200
            THEN rs_pc' = "streaming" /\ UNCHANGED <<rs_retry_count, rs_outcome>>
            ELSE IF status = 0 THEN Except(RequestError)
            ELSE Except(StatusError(status))
    /\ UNCHANGED <<rs_adapter, rs_oauth>>
    /\ StreamRetryFrame

\* a data frame is read and its chunk yielded
EmitChunk ==
    /\ rs_pc = "streaming"
    /\ Cardinality({i \in RsChunks : rs_log[i].req = Cardinality(RsRequests)}) < MaxRetryChunks
    /\ rs_log' = Append(rs_log, [ev |-> "chunk", req |-> Cardinality(RsRequests), status |-> 200])
    /\ UNCHANGED <<rs_adapter, rs_oauth, rs_retry_count, rs_pc, rs_outcome>>
    /\ StreamRetryFrame

\* the loop raises: the connection fails during a read, or an error frame
\* arrives
LoopRaises ==
    /\ rs_pc = "streaming"
    /\ \E exc \in {RequestError, FrameError(401), FrameError(500)} : Except(exc)
    /\ UNCHANGED <<rs_adapter, rs_oauth, rs_log>>
    /\ StreamRetryFrame

\* the response is exhausted: the generator returns
ResponseEnds ==
    /\ rs_pc = "streaming"
    /\ rs_pc' = "done"
    /\ rs_outcome' = "ok"
    /\ UNCHANGED <<rs_adapter, rs_oauth, rs_retry_count, rs_log>>
    /\ StreamRetryFrame

StreamRetryInit ==
    /\ rs_adapter \in {"qwen", "antigravity"}
    /\ rs_oauth \in (IF rs_adapter = "qwen" THEN BOOLEAN ELSE {TRUE})
    /\ rs_retry_count = 0
    /\ rs_pc = "request"
    /\ rs_log = <<>>
    /\ rs_outcome = "none"

\* No streaming call is running (the other parts' specifications).
StreamRetryIdle ==
    /\ rs_adapter = "qwen"
    /\ rs_oauth = TRUE
    /\ rs_retry_count = 0
    /\ rs_pc = "idle"
    /\ rs_log = <<>>
    /\ rs_outcome = "none"

StreamRetryNext ==
    \/ OpenResponse
    \/ EmitChunk
    \/ LoopRaises
    \/ ResponseEnds

\* C35: in complete_streaming the auth retry happens only before any chunk has
\* been emitted: no upstream request follows a chunk, and all the chunks the
\* caller receives in one stream are of one upstream response.
C35_NoRequestAfterChunk ==
    /\ \A c \in RsChunks : \A r \in RsRequests : r < c
    /\ \A c, d \in RsChunks : rs_log[c].req = rs_log[d].req

\* The call was retried, the second response was streamed and ended by an
\* error frame reporting 401 after two chunks.
C35_Witness ==
    /\ rs_pc = "done"
    /\ rs_outcome = "ValueError"
    /\ Cardinality(RsRequests) = 2
    /\ Cardinality(RsChunks) = 2

(***************************************************************************)
(* The specifications: one per part; the other parts stay idle.            *)
(***************************************************************************)
InitRetry ==
    RetryInit /\ ParserIdle /\ StreamInit /\ ArgsIdle /\ OAuthIdle /\ ClientIdle /\
    AbandonIdle /\ SseIdle /\ RequestIdle /\ OllamaIdle /\ ProjectIdle /\ DeltaIdle /\
    StreamRetryIdle

SpecRetry == InitRetry /\ [][RetryNext]_vars

InitParser ==
    ParserInit /\ RetryIdle /\ StreamInit /\ ArgsIdle /\ OAuthIdle /\ ClientIdle /\
    AbandonIdle /\ SseIdle /\ RequestIdle /\ OllamaIdle /\ ProjectIdle /\ DeltaIdle /\
    StreamRetryIdle

SpecParser == InitParser /\ [][ParserNext]_vars

InitStream ==
    StreamInit /\ RetryIdle /\ ParserIdle /\ ArgsIdle /\ OAuthIdle /\ ClientIdle /\
    AbandonIdle /\ SseIdle /\ RequestIdle /\ OllamaIdle /\ ProjectIdle /\ DeltaIdle /\
    StreamRetryIdle

SpecStream == InitStream /\ [][StreamNext]_vars

InitArgs ==
    ArgsInit /\ RetryIdle /\ ParserIdle /\ StreamInit /\ OAuthIdle /\ ClientIdle /\
    AbandonIdle /\ SseIdle /\ RequestIdle /\ OllamaIdle /\ ProjectIdle /\ DeltaIdle /\
    StreamRetryIdle

SpecArgs == InitArgs /\ [][ArgsNext]_vars

InitOAuth ==
    OAuthInit /\ RetryIdle /\ ParserIdle /\ StreamInit /\ ArgsIdle /\ ClientIdle /\
    AbandonIdle /\ SseIdle /\ RequestIdle /\ OllamaIdle /\ ProjectIdle /\ DeltaIdle /\
    StreamRetryIdle

SpecOAuth == InitOAuth /\ [][OAuthNext]_vars

InitClient ==
    ClientInit /\ RetryIdle /\ ParserIdle /\ StreamInit /\ ArgsIdle /\ OAuthIdle /\
    AbandonIdle /\ SseIdle /\ RequestIdle /\ OllamaIdle /\ ProjectIdle /\ DeltaIdle /\
    StreamRetryIdle

SpecClient == InitClient /\ [][ClientNext]_vars

InitAbandon ==
    AbandonInit /\ RetryIdle /\ ParserIdle /\ StreamInit /\ ArgsIdle /\ OAuthIdle /\
    ClientIdle /\ SseIdle /\ RequestIdle /\ OllamaIdle /\ ProjectIdle /\ DeltaIdle /\
    StreamRetryIdle

SpecAbandon == InitAbandon /\ [][AbandonNext]_vars

InitSse ==
    SseInit /\ RetryIdle /\ ParserIdle /\ StreamInit /\ ArgsIdle /\ OAuthIdle /\
    ClientIdle /\ AbandonIdle /\ RequestIdle /\ OllamaIdle /\ ProjectIdle /\
    DeltaIdle /\ StreamRetryIdle

SpecSse == InitSse /\ [][SseNext]_vars

InitRequest ==
    RequestInit /\ RetryIdle /\ ParserIdle /\ StreamInit /\ ArgsIdle /\ OAuthIdle /\
    ClientIdle /\ AbandonIdle /\ SseIdle /\ OllamaIdle /\ ProjectIdle /\ DeltaIdle /\
    StreamRetryIdle

SpecRequest == InitRequest /\ [][RequestNext]_vars

InitOllama ==
    OllamaInit /\ RetryIdle /\ ParserIdle /\ StreamInit /\ ArgsIdle /\ OAuthIdle /\
    ClientIdle /\ AbandonIdle /\ SseIdle /\ RequestIdle /\ ProjectIdle /\ DeltaIdle /\
    StreamRetryIdle

SpecOllama == InitOllama /\ [][OllamaNext]_vars

InitProject ==
    ProjectInit /\ RetryIdle /\ ParserIdle /\ StreamInit /\ ArgsIdle /\ OAuthIdle /\
    ClientIdle /\ AbandonIdle /\ SseIdle /\ RequestIdle /\ OllamaIdle /\ DeltaIdle /\
    StreamRetryIdle

SpecProject == InitProject /\ [][ProjectNext]_vars

InitDelta ==
    DeltaInit /\ RetryIdle /\ ParserIdle /\ StreamInit /\ ArgsIdle /\ OAuthIdle /\
    ClientIdle /\ AbandonIdle /\ SseIdle /\ RequestIdle /\ OllamaIdle /\ ProjectIdle /\
    StreamRetryIdle

SpecDelta == InitDelta /\ [][DeltaNext]_vars

InitStreamRetry ==
    StreamRetryInit /\ RetryIdle /\ ParserIdle /\ StreamInit /\ ArgsIdle /\
    OAuthIdle /\ ClientIdle /\ AbandonIdle /\ SseIdle /\ RequestIdle /\ OllamaIdle /\
    ProjectIdle /\ DeltaIdle

SpecStreamRetry == InitStreamRetry /\ [][StreamRetryNext]_vars

\* The closing of an abandoned generator is scheduled by the event loop.
SpecAbandonFair ==
    InitAbandon /\ [][AbandonNext]_vars /\ WF_vars(WrapperClosed) /\ WF_vars(GeneratorClosed)

====
